---- MODULE Spec2Model ----
(***************************************************************************)
(* Stargazer: the cached cluster-state client (src/src/k8s_client.py), the *)
(* scan orchestrator (src/src/discovery.py), the issue id scheme           *)
(* (src/src/utils.py), the agents and their command router                 *)
(* (src/src/agents.py, src/src/mock_ai.py) and the command validator       *)
(* (src/src/command_validator.py), as one state machine.                   *)
(*                                                                         *)
(* The program runs on one asyncio event loop.  Time is the wall clock in  *)
(* whole seconds.  A python None is the value None below; a python dict is *)
(* a function whose DOMAIN is the set of keys present.                     *)
(***************************************************************************)
EXTENDS Integers, Sequences, FiniteSets, TLC

VARIABLES
    now,            \* the wall clock, datetime.now(), in seconds
    podNamespace,   \* os.getenv("POD_NAMESPACE", "default")
    namespace,      \* K8sClient.namespace of every client
    option,         \* the --namespace option of main.py's scan and health commands
    cache,          \* K8sClient.cache of every client
    op,             \* the top-level call in progress, or None
    pc,             \* where the event loop's only thread is
    task,           \* the scan rule (asyncio task) that holds the thread, or None
    idx,            \* index of the current client read in the reader's read list
    got,            \* payloads the current reader has received so far
    live,           \* the blocking control-plane read in progress, or None
    results,        \* per scan rule: the state and result of its task
    ret,            \* what the last finished top-level call gave its caller, or None
    lastCall,       \* the last K8sClient.get_* call: what it saw and what it did
    ncalls,         \* number of top-level calls made so far
    idLog,          \* the ids handed out by generate_issue_id so far
    current_agent,  \* AgentSystem.current_agent
    reply,          \* the last call of AgentSystem: its command and its outcome
    cleared,        \* the last clear_cache call: whose cache, and what it held
    trip,           \* the last Issue.to_dict / from_dict round: object, dict, object
    validation,     \* the validate_kubectl_command call: its command, what it returned
    issues_file,    \* Storage.issues_file: the JSON document on disk, absent or cut short
    appended,       \* the issues handed to Storage.append_issue so far
    config,         \* which Kubernetes configurations the process can load
    startup,        \* the construction of the clients at the start of the process
    scanned,        \* the last scan rule run by itself: its records and its outcome
    loop            \* the scan command of main.py: where its loop is

vars == <<now, podNamespace, namespace, option, cache, op, pc, task, idx, got, live,
          results, ret, lastCall, ncalls, idLog, current_agent, reply, cleared,
          trip, validation, issues_file, appended, config, startup, scanned, loop>>

\* the state of the parts that the client and the agents do not touch
otherVars == <<trip, validation, issues_file, appended, config, startup, scanned, loop>>

None == "<None>"

-----------------------------------------------------------------------------
(* Bounds of the exploration.                                              *)

MaxCalls == 2       \* direct client calls in one behaviour
MaxScans == 1       \* scan_all and get_resource_health calls in one behaviour
MaxNow == 30        \* the clock stops advancing here
MaxIds == 2         \* generate_issue_id calls recorded in idLog
MaxClears == 1      \* clear_cache calls in one behaviour
MaxCommands == 2    \* execute_command and set_current_agent calls in one behaviour
MaxReads == 1       \* of them, commands that make an agent read the cluster
MaxTrips == 1       \* issues taken through to_dict and from_dict in one behaviour
MaxWords == 3       \* words of a raw command handed to the validator
MaxAppends == 2     \* Storage.append_issue calls in one behaviour
MaxLaunches == 1    \* processes started after the first in one behaviour
MaxRecords == 2     \* pods or deployments in the list a scan rule is given

(* Program constants.                                                      *)

CacheTTL == 30          \* K8sClient.cache_ttl, seconds
RecentWindow == 3600    \* Discovery._is_recent, seconds
KeepLast == 1000        \* Storage.append_issue, issues kept in the file
RestartLimit_Lower == 5 - 1
RestartLimit == 5       \* Discovery._scan_pods, restarts above this are reported
MaxMessage == 200       \* Discovery._scan_events, longest description kept whole
NetworkTail == 5        \* the heuristic rules report the last five matches

TickSteps == {15, 30}   \* how far one Tick moves the clock

-----------------------------------------------------------------------------
(* Python strings.                                                         *)

\* sub in s
Contains(s, sub) ==
    \E i \in 1..(Len(s) - Len(sub) + 1) : SubSeq(s, i, i + Len(sub) - 1) = sub

LowerChar(c) ==
    CASE c = "A" -> "a" [] c = "B" -> "b" [] c = "C" -> "c" [] c = "D" -> "d"
      [] c = "E" -> "e" [] c = "F" -> "f" [] c = "G" -> "g" [] c = "H" -> "h"
      [] c = "I" -> "i" [] c = "J" -> "j" [] c = "K" -> "k" [] c = "L" -> "l"
      [] c = "M" -> "m" [] c = "N" -> "n" [] c = "O" -> "o" [] c = "P" -> "p"
      [] c = "Q" -> "q" [] c = "R" -> "r" [] c = "S" -> "s" [] c = "T" -> "t"
      [] c = "U" -> "u" [] c = "V" -> "v" [] c = "W" -> "w" [] c = "X" -> "x"
      [] c = "Y" -> "y" [] c = "Z" -> "z" [] OTHER -> c

\* s.lower()
RECURSIVE Lower(_)
Lower(s) ==
    IF Len(s) = 0 THEN ""
    ELSE LowerChar(SubSeq(s, 1, 1)) \o Lower(SubSeq(s, 2, Len(s)))

\* a or b, for an Optional[str] a: None and "" are falsy
PyOr(a, b) == IF a = None \/ a = "" THEN b ELSE a

\* str(x) inside an f-string, for a value that may be None
Str(x) == IF x = None THEN "None" ELSE x

\* s.startswith(prefix)
StartsWith(s, prefix) ==
    Len(s) >= Len(prefix) /\ SubSeq(s, 1, Len(prefix)) = prefix

\* s.find(" ") + 1: the position of the first space of s, 0 when it has none
FirstSpace(s) ==
    IF \E i \in 1..Len(s) : SubSeq(s, i, i) = " "
    THEN CHOOSE i \in 1..Len(s) :
            /\ SubSeq(s, i, i) = " "
            /\ \A j \in 1..(i - 1) : SubSeq(s, j, j) # " "
    ELSE 0

\* s.split(" ", 1)
SplitOnce(s) ==
    IF FirstSpace(s) = 0 THEN <<s>>
    ELSE <<SubSeq(s, 1, FirstSpace(s) - 1), SubSeq(s, FirstSpace(s) + 1, Len(s))>>

\* s.split(): the words of s, separated by runs of blanks
RECURSIVE Words(_)
Words(s) ==
    IF s = "" THEN <<>>
    ELSE IF FirstSpace(s) = 0 THEN <<s>>
    ELSE IF FirstSpace(s) = 1 THEN Words(SubSeq(s, 2, Len(s)))
    ELSE <<SubSeq(s, 1, FirstSpace(s) - 1)>>
         \o Words(SubSeq(s, FirstSpace(s) + 1, Len(s)))

\* s.isdigit()
IsDigit(s) ==
    /\ s # ""
    /\ \A i \in 1..Len(s) :
          SubSeq(s, i, i) \in {"0", "1", "2", "3", "4", "5", "6", "7", "8", "9"}

-----------------------------------------------------------------------------
(* The issue model, src/src/utils.py.                                      *)

Priority == {"critical", "warning", "info"}

\* generate_issue_id without the issue type in the id
generate_issue_id_NoType(resource_name, issue_type) ==
    resource_name \o "-" \o ToString(now)

\* f"{resource_name}-{issue_type}-{int(datetime.now().timestamp())}"
generate_issue_id(resource_name, issue_type) ==
    resource_name \o "-" \o issue_type \o "-" \o ToString(now)

\* Issue.__init__ with no timestamp argument: the timestamp is the clock
Issue(id, title, description, priority, resource_type, resource_name, ns) ==
    [id |-> id, title |-> title, description |-> description,
     priority |-> priority, resource_type |-> resource_type,
     resource_name |-> resource_name, namespace |-> ns, timestamp |-> now]

-----------------------------------------------------------------------------
(* Sequences.                                                              *)

RECURSIVE FlatMap(_, _)
FlatMap(F(_), s) ==
    IF s = <<>> THEN <<>> ELSE F(Head(s)) \o FlatMap(F, Tail(s))

\* s[-n:]
LastN(s, n) == IF Len(s) <= n THEN s ELSE SubSeq(s, Len(s) - n + 1, Len(s))

\* number of elements of s that satisfy P
RECURSIVE Count(_, _)
Count(P(_), s) ==
    IF s = <<>> THEN 0 ELSE (IF P(Head(s)) THEN 1 ELSE 0) + Count(P, Tail(s))

-----------------------------------------------------------------------------
(* The scan rules, src/src/discovery.py: what each rule makes of the       *)
(* payloads the client gave it.  A rule's outcome is a list of issues, or  *)
(* an exception.                                                           *)

Returned(issues) == [status |-> "returned", issues |-> issues]
Raised == [status |-> "raised", issues |-> <<>>]

\* a loop that reports a pod that is not ready whatever its status
PodIssues_NotReadyAnyStatus(pod) ==
    (IF pod.status \notin {"Running", "Succeeded"}
     THEN <<Issue(generate_issue_id(pod.name, "status"),
                  "Pod " \o pod.name \o " in " \o pod.status \o " state", "",
                  IF pod.status \in {"Failed", "CrashLoopBackOff", "Error"}
                  THEN "critical" ELSE "warning",
                  "pod", pod.name, pod.namespace)>>
     ELSE <<>>)
    \o
    (IF pod.restarts > 5
     THEN <<Issue(generate_issue_id(pod.name, "restarts"),
                  "High restart count for " \o pod.name, "",
                  "warning", "pod", pod.name, pod.namespace)>>
     ELSE <<>>)
    \o
    (IF ~pod.ready
     THEN <<Issue(generate_issue_id(pod.name, "readiness"),
                  "Pod " \o pod.name \o " not ready", "",
                  "warning", "pod", pod.name, pod.namespace)>>
     ELSE <<>>)

\* a loop that reports every status but Running, and always as a warning
PodIssues_StatusIsWarning(pod) ==
    (IF pod.status # "Running"
     THEN <<Issue(generate_issue_id(pod.name, "status"),
                  "Pod " \o pod.name \o " in " \o pod.status \o " state", "",
                  "warning", "pod", pod.name, pod.namespace)>>
     ELSE <<>>)
    \o
    (IF pod.restarts > 5
     THEN <<Issue(generate_issue_id(pod.name, "restarts"),
                  "High restart count for " \o pod.name, "",
                  "warning", "pod", pod.name, pod.namespace)>>
     ELSE <<>>)
    \o
    (IF ~pod.ready /\ pod.status = "Running"
     THEN <<Issue(generate_issue_id(pod.name, "readiness"),
                  "Pod " \o pod.name \o " not ready", "",
                  "warning", "pod", pod.name, pod.namespace)>>
     ELSE <<>>)

\* Discovery._scan_pods, one iteration of the loop over the pods
PodIssues(pod) ==
    (IF pod.status \notin {"Running", "Succeeded"}
     THEN <<Issue(generate_issue_id(pod.name, "status"),
                  "Pod " \o pod.name \o " in " \o pod.status \o " state",
                  "Pod is in " \o pod.status \o " state instead of Running."
                    \o (IF pod.status \in {"CrashLoopBackOff", "Error"}
                        THEN " Container is crashing. Check logs with: kubectl logs "
                             \o pod.name \o " -n " \o pod.namespace \o " --previous"
                        ELSE IF pod.status = "Pending"
                        THEN " Pod cannot be scheduled. Check events with: kubectl get events -n "
                             \o pod.namespace \o " --field-selector involvedObject.name=" \o pod.name
                        ELSE IF pod.status = "Failed"
                        THEN " Pod has failed. Check describe output: kubectl describe pod "
                             \o pod.name \o " -n " \o pod.namespace
                        ELSE ""),
                  IF pod.status \in {"Failed", "CrashLoopBackOff", "Error"}
                  THEN "critical" ELSE "warning",
                  "pod", pod.name, pod.namespace)>>
     ELSE <<>>)
    \o
    (IF pod.restarts > RestartLimit
     THEN <<Issue(generate_issue_id(pod.name, "restarts"),
                  "High restart count for " \o pod.name,
                  "Pod has restarted " \o ToString(pod.restarts)
                    \o " times. Check crash logs: kubectl logs " \o pod.name
                    \o " -n " \o pod.namespace
                    \o " --previous. Review events: kubectl get events -n "
                    \o pod.namespace \o " --field-selector involvedObject.name="
                    \o pod.name,
                  "warning", "pod", pod.name, pod.namespace)>>
     ELSE <<>>)
    \o
    (IF ~pod.ready /\ pod.status = "Running"
     THEN <<Issue(generate_issue_id(pod.name, "readiness"),
                  "Pod " \o pod.name \o " not ready",
                  "Pod is running but readiness probe is failing. Check logs and probe configuration. Run: kubectl describe pod "
                    \o pod.name \o " -n " \o pod.namespace \o " to see probe details.",
                  "warning", "pod", pod.name, pod.namespace)>>
     ELSE <<>>)

\* a scan that reports every pod that is not ready, whatever its status
ScanPods_NotReadyAnyStatus(pods) ==
    Returned(FlatMap(LAMBDA pod :
                        PodIssues(pod)
                        \o (IF ~pod.ready /\ pod.status # "Running"
                            THEN <<Issue(generate_issue_id(pod.name, "readiness"),
                                         "Pod " \o pod.name \o " not ready", "",
                                         "warning", "pod", pod.name,
                                         pod.namespace)>>
                            ELSE <<>>),
                     pods))

\* Discovery._scan_pods, after the read
ScanPods(pods) == Returned(FlatMap(PodIssues, pods))

\* a loop that reports a mismatch only when replicas are missing
DeploymentIssues_MissingOnly(deployment) ==
    (IF deployment.ready < deployment.replicas
     THEN <<Issue(generate_issue_id(deployment.name, "replicas"),
                  "Replica mismatch in " \o deployment.name, "",
                  "warning", "deployment", deployment.name, deployment.namespace)>>
     ELSE <<>>)
    \o
    (IF deployment.available < deployment.replicas
     THEN <<Issue(generate_issue_id(deployment.name, "availability"),
                  "Deployment " \o deployment.name \o " unavailable", "",
                  "critical", "deployment", deployment.name, deployment.namespace)>>
     ELSE <<>>)

\* Discovery._scan_deployments, one iteration of the loop
DeploymentIssues(deployment) ==
    (IF deployment.replicas # deployment.ready
     THEN <<Issue(generate_issue_id(deployment.name, "replicas"),
                  "Replica mismatch in " \o deployment.name,
                  "Expected " \o ToString(deployment.replicas) \o " replicas, "
                    \o ToString(deployment.ready) \o " ready",
                  "warning", "deployment", deployment.name, deployment.namespace)>>
     ELSE <<>>)
    \o
    (IF deployment.available < deployment.replicas
     THEN <<Issue(generate_issue_id(deployment.name, "availability"),
                  "Deployment " \o deployment.name \o " unavailable",
                  "Only " \o ToString(deployment.available) \o " of "
                    \o ToString(deployment.replicas) \o " replicas available",
                  "critical", "deployment", deployment.name, deployment.namespace)>>
     ELSE <<>>)

\* a scan that reports unavailability only for a replica mismatch
ScanDeployments_QuietWhenReady(deployments) ==
    Returned(FlatMap(LAMBDA deployment :
                        IF deployment.replicas = deployment.ready THEN <<>>
                        ELSE DeploymentIssues(deployment),
                     deployments))

\* Discovery._scan_deployments, after the read
ScanDeployments(deployments) == Returned(FlatMap(DeploymentIssues, deployments))

\* a window that takes in the event that is exactly one hour old
_is_recent_Inclusive(timestamp) ==
    IF timestamp = <<>> THEN FALSE ELSE now - timestamp[1] <= RecentWindow

\* Discovery._is_recent; a timestamp is <<t>>, or <<>> for a python None
_is_recent(timestamp) ==
    IF timestamp = <<>> THEN FALSE ELSE now - timestamp[1] < RecentWindow

\* the grouping key of Discovery._scan_events
EventKey(event) ==
    event.object_kind \o "-" \o event.object_name \o "-" \o Str(event.reason)

\* the keys of event_groups, in insertion order
RECURSIVE GroupKeys(_, _)
GroupKeys(events, seen) ==
    IF events = <<>> THEN <<>>
    ELSE IF EventKey(Head(events)) \in seen THEN GroupKeys(Tail(events), seen)
    ELSE <<EventKey(Head(events))>>
         \o GroupKeys(Tail(events), seen \cup {EventKey(Head(events))})

\* event_groups[key]
Group(events, key) == SelectSeq(events, LAMBDA e : EventKey(e) = key)

\* recent_events of one group
RecentEvents(group) == SelectSeq(group, LAMBDA e : _is_recent(e.timestamp))

\* "Error" in reason, len(message): a None there is a TypeError
EventRaises(latest_event) ==
    latest_event.reason = None \/ latest_event.message = None

\* an issue whose priority is decided by the type before the reason
EventIssue_TypeFirst(latest_event) ==
    Issue(generate_issue_id(latest_event.object_name, "event"),
          latest_event.reason \o " on " \o latest_event.object_kind \o "/"
            \o latest_event.object_name,
          IF Len(latest_event.message) > MaxMessage
          THEN SubSeq(latest_event.message, 1, MaxMessage - 3) \o "..."
          ELSE latest_event.message,
          IF latest_event.type = "Warning" THEN "warning"
          ELSE IF Contains(latest_event.reason, "Error")
                  \/ Contains(latest_event.reason, "Failed")
          THEN "critical" ELSE "info",
          Lower(latest_event.object_kind), latest_event.object_name,
          latest_event.namespace)

\* an issue whose description is cut to the limit and then given its dots
EventIssue_DotsAfterLimit(latest_event) ==
    Issue(generate_issue_id(latest_event.object_name, "event"),
          latest_event.reason \o " on " \o latest_event.object_kind \o "/"
            \o latest_event.object_name,
          IF Len(latest_event.message) > MaxMessage
          THEN SubSeq(latest_event.message, 1, MaxMessage) \o "..."
          ELSE latest_event.message,
          IF Contains(latest_event.reason, "Error")
             \/ Contains(latest_event.reason, "Failed")
          THEN "critical"
          ELSE IF latest_event.type = "Warning" THEN "warning" ELSE "info",
          Lower(latest_event.object_kind), latest_event.object_name,
          latest_event.namespace)

\* the issue Discovery._scan_events appends for one group's latest event
EventIssue(latest_event) ==
    Issue(generate_issue_id(latest_event.object_name, "event"),
          latest_event.reason \o " on " \o latest_event.object_kind \o "/"
            \o latest_event.object_name,
          IF Len(latest_event.message) > MaxMessage
          THEN SubSeq(latest_event.message, 1, MaxMessage - 3) \o "..."
          ELSE latest_event.message,
          IF Contains(latest_event.reason, "Error")
             \/ Contains(latest_event.reason, "Failed")
          THEN "critical"
          ELSE IF latest_event.type = "Warning" THEN "warning" ELSE "info",
          Lower(latest_event.object_kind), latest_event.object_name,
          latest_event.namespace)

\* Discovery._scan_events, after the read
ScanEvents(events) ==
    LET keys == GroupKeys(events, {})
        recent(key) == RecentEvents(Group(events, key))
        live_keys == SelectSeq(keys, LAMBDA k : recent(k) # <<>>)
        one(key) == <<EventIssue(recent(key)[1])>>
    IN  IF \E i \in 1..Len(live_keys) : EventRaises(recent(live_keys[i])[1])
        THEN Raised
        ELSE Returned(FlatMap(one, live_keys))

\* "istio-injection" in str(labels) or any("istio" in k.lower() for k in labels)
HasIstio(labels) ==
    \E k \in DOMAIN labels :
        \/ Contains(k, "istio-injection")
        \/ Contains(labels[k], "istio-injection")
        \/ Contains(Lower(k), "istio")

\* Discovery._scan_service_mesh_issues, one iteration of the loop
MeshIssues(pod) ==
    IF HasIstio(pod.labels) /\ pod.status = "Running" /\ ~pod.ready
    THEN <<Issue(generate_issue_id(pod.name, "istio-sidecar"),
                 "Istio sidecar issue in " \o pod.name,
                 "Pod appears to have Istio injection but may have sidecar issues. Check: kubectl logs "
                   \o pod.name \o " -n " \o pod.namespace
                   \o " -c istio-proxy. Verify sidecar: kubectl get pod "
                   \o pod.name \o " -n " \o pod.namespace
                   \o " -o jsonpath='{.spec.containers[*].name}'",
                 "warning", "pod", pod.name, pod.namespace)>>
    ELSE <<>>

\* Discovery._scan_service_mesh_issues, after the read
ScanServiceMesh(pods) == Returned(FlatMap(MeshIssues, pods))

NetworkKeywords == {"network", "policy", "forbidden", "denied", "cilium"}

\* e.get("message", "").lower() of a message that is None is an AttributeError
MessageRaises(event) == event.message = None

IsNetworkError(event) ==
    \E keyword \in NetworkKeywords : Contains(Lower(event.message), keyword)

\* Discovery._scan_network_policies, one iteration of the loop
NetworkIssues(event) ==
    IF Contains(Lower(event.message), "network")
       \/ Contains(Lower(event.message), "policy")
    THEN <<Issue(generate_issue_id(event.object_name, "network-policy"),
                 "Network policy issue: " \o Str(event.reason),
                 event.message \o ". Check network policies: kubectl get networkpolicies -n "
                   \o event.namespace
                   \o ". For Cilium: kubectl get cnp,ccnp -A. Debug: kubectl exec -n "
                   \o event.namespace \o " <pod> -- curl <target>",
                 "warning", Lower(event.object_kind), event.object_name,
                 event.namespace)>>
    ELSE <<>>

\* Discovery._scan_network_policies, after its two reads; every exception
\* inside it is swallowed and leaves the issues collected so far
ScanNetworkPolicies(pods, events) ==
    IF \E i \in 1..Len(events) : MessageRaises(events[i])
    THEN Returned(<<>>)
    ELSE Returned(FlatMap(NetworkIssues,
                          LastN(SelectSeq(events, IsNetworkError), NetworkTail)))

\* evaluating the filter of kyverno_events raises for this event
KyvernoRaises(event) ==
    \/ event.message = None
    \/ ~Contains(Lower(event.message), "kyverno") /\ event.reason = None

IsKyverno(event) ==
    \/ Contains(Lower(event.message), "kyverno")
    \/ Contains(Lower(event.reason), "policy")
       /\ Contains(Lower(event.message), "violation")

\* Discovery._scan_policy_violations, one iteration of the loop
PolicyIssues(event) ==
    <<Issue(generate_issue_id(event.object_name, "policy-violation"),
            "Policy violation: " \o Str(event.reason),
            event.message \o ". Check Kyverno policies: kubectl get policyreport -n "
              \o event.namespace
              \o ". View violations: kubectl get policyreport -n "
              \o event.namespace \o " -o yaml",
            "warning", Lower(event.object_kind), event.object_name,
            event.namespace)>>

\* Discovery._scan_policy_violations, after the read
ScanPolicyViolations(events) ==
    IF \E i \in 1..Len(events) : KyvernoRaises(events[i])
    THEN Returned(<<>>)
    ELSE Returned(FlatMap(PolicyIssues,
                          LastN(SelectSeq(events, IsKyverno), NetworkTail)))

\* the six coroutines of Discovery.scan_all, in the order of the tasks list
Rules == <<"_scan_pods", "_scan_deployments", "_scan_events",
           "_scan_service_mesh_issues", "_scan_network_policies",
           "_scan_policy_violations">>

RuleNames == {Rules[i] : i \in 1..Len(Rules)}

\* the client reads each rule makes, in order
RuleReads(r) ==
    CASE r = "_scan_pods" -> <<"pods">>
      [] r = "_scan_deployments" -> <<"deployments">>
      [] r = "_scan_events" -> <<"events">>
      [] r = "_scan_service_mesh_issues" -> <<"pods">>
      [] r = "_scan_network_policies" -> <<"pods", "events">>
      [] r = "_scan_policy_violations" -> <<"events">>

\* what rule r returns or raises once its reads gave it the payloads in data
RuleOutcome(r, data) ==
    CASE r = "_scan_pods" -> ScanPods(data[1])
      [] r = "_scan_deployments" -> ScanDeployments(data[1])
      [] r = "_scan_events" -> ScanEvents(data[1])
      [] r = "_scan_service_mesh_issues" -> ScanServiceMesh(data[1])
      [] r = "_scan_network_policies" -> ScanNetworkPolicies(data[1], data[2])
      [] r = "_scan_policy_violations" -> ScanPolicyViolations(data[1])

\* the namespace a rule hands to the client, lines 48-51 of every rule
RuleNamespace(ns) ==
    IF ns = "all" \/ ns = "" \/ ns = None THEN None ELSE PyOr(ns, podNamespace)

\* the namespace scan_all hands to its rules, lines 20-23
ScanNamespace(ns) ==
    IF ns = "all" \/ ns = "" \/ ns = None THEN None ELSE ns

\* the namespace get_resource_health hands to the client, lines 216-222
HealthNamespace(ns) ==
    IF ns = "all" \/ ns = "" THEN None
    ELSE IF ns = None THEN None ELSE ns

HealthReads == <<"pods", "deployments", "events">>

\* get_resource_health that calls a cluster without pods healthy
ResourceHealth_EmptyIsHealthy(pods, deployments, events) ==
    LET total_pods == Len(pods)
        healthy_pods == Count(LAMBDA p : p.status = "Running" /\ p.ready, pods)
        total_deployments == Len(deployments)
        healthy_deployments ==
            Count(LAMBDA d : d.ready = d.replicas, deployments)
    IN  [pods |-> [total |-> total_pods, healthy |-> healthy_pods],
         deployments |-> [total |-> total_deployments,
                          healthy |-> healthy_deployments],
         events |-> [warnings |-> Count(LAMBDA e : e.type = "Warning", events),
                     errors |-> Count(LAMBDA e :
                                        \/ Contains(Str(e.reason), "Error")
                                        \/ Contains(Str(e.reason), "Fail"),
                                      events)],
         overall_health |->
             IF healthy_pods = total_pods
                /\ healthy_deployments = total_deployments
             THEN "healthy" ELSE "degraded"]

\* Discovery.get_resource_health, after its three reads
ResourceHealth(pods, deployments, events) ==
    LET total_pods == Len(pods)
        healthy_pods == Count(LAMBDA p : p.status = "Running" /\ p.ready, pods)
        total_deployments == Len(deployments)
        healthy_deployments ==
            Count(LAMBDA d : d.ready = d.replicas, deployments)
    IN  [pods |-> [total |-> total_pods, healthy |-> healthy_pods],
         deployments |-> [total |-> total_deployments,
                          healthy |-> healthy_deployments],
         events |-> [warnings |-> Count(LAMBDA e : e.type = "Warning", events),
                     errors |-> Count(LAMBDA e :
                                        \/ Contains(Str(e.reason), "Error")
                                        \/ Contains(Str(e.reason), "Fail"),
                                      events)],
         overall_health |->
             IF healthy_pods = total_pods
                /\ healthy_deployments = total_deployments /\ total_pods > 0
             THEN "healthy" ELSE "degraded"]

-----------------------------------------------------------------------------
(* The clients and who owns them.                                          *)

\* AgentSystem.agents: every Agent.__init__ builds a K8sClient of its own
Agents == {"troubleshooter", "discovery", "logs", "resource", "network",
           "security"}

\* the clients of the agents, and the one main.py's cli() builds
Clients == Agents \cup {"cli"}

Kinds == {"pods", "deployments", "events"}

\* what main.py, the agents and the API's users pass as a namespace
NamespaceArgs == {None, "", "all", "ns1"}

\* the values of POD_NAMESPACE, "default" when it is unset
PodNamespaces == {"default"}

\* the --namespace option of cli(), None when it is not given
CliOptions == {None, "ns2"}

\* the direct callers of get_pods, get_deployments and get_events, as
\* (client, namespace argument): DiscoveryAgent.execute and
\* TroubleshooterAgent._analyze_resource pass no namespace
GetCallers == {<<"discovery", None>>, <<"troubleshooter", None>>, <<"cli", "ns1">>}

-----------------------------------------------------------------------------
(* What the control plane may answer to a list call, as the client's       *)
(* records (K8sClient.get_pods lines 55-68 and the like).                  *)

PodLists(ns) ==
    {<<>>,
     <<[name |-> "web-42", namespace |-> ns, status |-> "Running",
        ready |-> FALSE, restarts |-> 8, node |-> "node-1",
        labels |-> [x \in {"istio-injection"} |-> "enabled"]]>>,
     <<[name |-> "api-1", namespace |-> ns, status |-> "Running",
        ready |-> TRUE, restarts |-> 0, node |-> "node-1",
        labels |-> [x \in {"app"} |-> "api"]]>>}

DeploymentLists(ns) ==
    {<<>>,
     <<[name |-> "api", namespace |-> ns, replicas |-> 3, ready |-> 3,
        available |-> 1]>>}

EventLists(ns) ==
    {<<>>,
     <<[name |-> "web-42.1", namespace |-> ns, type |-> "Warning",
        reason |-> "PolicyViolation",
        message |-> "Kyverno policy violation: network policy denied",
        object_kind |-> "Pod", object_name |-> "web-42",
        timestamp |-> <<now>>]>>,
     <<[name |-> "web-42.2", namespace |-> ns, type |-> "Warning",
        reason |-> None, message |-> "readiness probe failed",
        object_kind |-> "Pod", object_name |-> "web-42",
        timestamp |-> <<now>>]>>}

Payloads(kind, ns) ==
    CASE kind = "pods" -> PodLists(ns)
      [] kind = "deployments" -> DeploymentLists(ns)
      [] kind = "events" -> EventLists(ns)

\* how a live read can fail: an ApiException (API and authentication errors),
\* or an exception of the transport (urllib3) that is no ApiException
Failures == {"ApiException", "TransportError"}

-----------------------------------------------------------------------------
(* K8sClient, src/src/k8s_client.py.                                       *)

\* a cache whose entries are never valid
_is_cache_valid_Never(c, cache_key) == FALSE

\* K8sClient._is_cache_valid
_is_cache_valid(c, cache_key) ==
    /\ cache_key \in DOMAIN cache[c]
    /\ now - cache[c][cache_key].timestamp < CacheTTL

\* K8sClient._get_from_cache: the data, or None
_get_from_cache(c, cache_key) ==
    IF _is_cache_valid(c, cache_key)
    THEN [some |-> TRUE, data |-> cache[c][cache_key].data]
    ELSE [some |-> FALSE, data |-> <<>>]

\* "if cached:": None and the empty list are falsy
Truthy(cached) == cached.some /\ cached.data # <<>>

\* _set_cache that replaces the whole dict by the new entry
_set_cache_Alone(c, cache_key, data) ==
    [cache EXCEPT ![c] =
        [k \in {cache_key} |-> [data |-> data, timestamp |-> now]]]

\* K8sClient._set_cache
_set_cache(c, cache_key, data) ==
    [cache EXCEPT ![c] =
        [k \in DOMAIN @ \cup {cache_key} |->
            IF k = cache_key THEN [data |-> data, timestamp |-> now] ELSE @[k]]]

\* the operands swapped: ns = self.namespace or namespace
ClientNamespace_DefaultFirst(c, ns) == PyOr(namespace[c], ns)

\* ns = namespace or self.namespace
ClientNamespace(c, ns) == PyOr(ns, namespace[c])

\* f"pods-{ns}", f"events-{ns}", f"deployments-{ns}"
CacheKey(kind, ns) == kind \o "-" \o ns

\* "except ApiException": the failures get_pods, get_events and
\* get_deployments turn into an empty list
Caught(failure) == failure = "ApiException"

-----------------------------------------------------------------------------
(* Control state.                                                          *)

NoOp == [name |-> None, client |-> None, kind |-> None, namespace |-> None]
NoLive == [kind |-> None, ns |-> None, key |-> None]
NoRet == [name |-> None, status |-> None, value |-> <<>>]
NoCall == [client |-> None, origin |-> None, arg |-> None, kind |-> None,
           namespace |-> None, ns |-> None, key |-> None, valid |-> FALSE,
           elsewhere |-> FALSE, served |-> None, failure |-> None,
           outcome |-> None, size |-> 0]
IdleRule == [status |-> "idle", ns |-> None, issues |-> <<>>]
NoReply == [command |-> None, status |-> None, route |-> None, by |-> None,
            text |-> None, was |-> None, selected |-> "troubleshooter",
            read |-> None, arg |-> None, lines |-> 0, reads |-> 0]
NoClear == [client |-> None, n |-> 0, calls |-> 0, fresh |-> {}]
NoValidation == [command |-> None, status |-> None, allowed |-> FALSE,
              message |-> None]
NoFile == [kind |-> "absent", records |-> <<>>]
NoAppends == [storage |-> None, before |-> 0, issues |-> <<>>]
Workstation == [incluster |-> FALSE, kubeconfig |-> TRUE]
Started == [entry |-> "cli", phase |-> "running", at |-> 0,
            clients |-> [c \in Clients |-> "ready"],
            tried |-> <<"incluster", "kubeconfig">>, launches |-> 0,
            commands |-> 0]
NoLoop == [at |-> "off", continuous |-> FALSE, interval |-> 0, last |-> None,
           slept |-> 0, stored |-> 0, ended |-> None]
NoScanned == [rule |-> None, records |-> <<>>, status |-> None, issues |-> <<>>]
NoTrip == [step |-> "none", issue |-> None, data |-> None, restored |-> None,
           n |-> 0]

Init ==
    /\ now = 0
    /\ podNamespace \in PodNamespaces
    /\ \E group_option \in CliOptions :
          namespace = [c \in Clients |->
                          IF c = "cli" THEN PyOr(group_option, podNamespace)
                          ELSE podNamespace]
    /\ option \in NamespaceArgs
    /\ cache = [c \in Clients |-> <<>>]
    /\ op = NoOp
    /\ pc = "idle"
    /\ task = None
    /\ idx = 0
    /\ got = <<>>
    /\ live = NoLive
    /\ results = [r \in RuleNames |-> IdleRule]
    /\ ret = NoRet
    /\ lastCall = NoCall
    /\ ncalls = 0
    /\ idLog = <<>>
    /\ current_agent = "troubleshooter"
    /\ reply = NoReply
    /\ cleared = NoClear
    /\ trip = NoTrip
    /\ validation = NoValidation
    /\ issues_file = NoFile
    /\ appended = NoAppends
    /\ config = Workstation
    /\ startup = Started
    /\ scanned = NoScanned
    /\ loop = NoLoop

\* the reads of whoever is calling the client now
Reads ==
    CASE op.name = "get" -> <<op.kind>>
      [] op.name = "get_resource_health" -> HealthReads
      [] op.name = "scan_all" -> RuleReads(task)

\* the namespace argument of the client call being made now
CallNamespace ==
    CASE op.name = "get" -> op.namespace
      [] op.name = "get_resource_health" -> HealthNamespace(op.namespace)
      [] op.name = "scan_all" -> RuleNamespace(results[task].ns)

\* a wait that ends with the first task to finish
AllRulesFinished_FirstCompleted ==
    \E r \in RuleNames : results[r].status \in {"returned", "raised"}

\* asyncio.gather(*tasks, return_exceptions=True) is done
AllRulesFinished ==
    \A r \in RuleNames : results[r].status \in {"returned", "raised"}

\* a fan-in that keeps one issue per resource: an issue is left out when a
\* later rule reports the same resource
RECURSIVE FanIn_OnePerResource(_, _)
FanIn_OnePerResource(res, i) ==
    IF i > Len(Rules) THEN <<>>
    ELSE LET rest == FanIn_OnePerResource(res, i + 1)
             mine == IF res[Rules[i]].status = "returned"
                     THEN res[Rules[i]].issues ELSE <<>>
         IN  SelectSeq(mine, LAMBDA x :
                          \A j \in 1..Len(rest) :
                             rest[j].resource_name # x.resource_name)
             \o rest

\* the loop over results, lines 37-41: lists are added, exceptions printed
RECURSIVE FanIn(_, _)
FanIn(res, i) ==
    IF i > Len(Rules) THEN <<>>
    ELSE (IF res[Rules[i]].status = "returned" THEN res[Rules[i]].issues
          ELSE <<>>) \o FanIn(res, i + 1)

\* gather without return_exceptions=True: the first exception of a rule
\* leaves scan_all
ScanAllOutcome_Propagate(res) ==
    IF \E r \in RuleNames : res[r].status = "raised"
    THEN [name |-> "scan_all", status |-> "raised", value |-> <<>>]
    ELSE [name |-> "scan_all", status |-> "returned", value |-> FanIn(res, 1)]

\* what scan_all gives its caller once gather is done
ScanAllOutcome(res) ==
    [name |-> "scan_all", status |-> "returned", value |-> FanIn(res, 1)]

-----------------------------------------------------------------------------
(* The callers of the client: what happens when a get_* call comes back,   *)
(* with a payload or with an exception.  The code runs on without a        *)
(* suspension up to its next client call or its end.                       *)

\* a direct call of get_pods / get_deployments / get_events ends
GetDone(payload, raised) ==
    /\ ret' = [name |-> "get",
               status |-> IF raised THEN "raised" ELSE "returned",
               value |-> payload]
    /\ op' = NoOp
    /\ pc' = "idle"
    /\ idx' = 0
    /\ got' = <<>>
    /\ UNCHANGED <<task, results>>

\* Discovery.get_resource_health, lines 224-256: an exception of a read is
\* caught and stands for an empty list
HealthStep(payload, raised) ==
    LET data == Append(got, IF raised THEN <<>> ELSE payload)
    IN  IF idx < Len(HealthReads)
        THEN /\ got' = data
             /\ idx' = idx + 1
             /\ pc' = "call"
             /\ UNCHANGED <<op, ret, task, results>>
        ELSE /\ ret' = [name |-> "get_resource_health", status |-> "returned",
                        value |-> ResourceHealth(data[1], data[2], data[3])]
             /\ op' = NoOp
             /\ pc' = "idle"
             /\ idx' = 0
             /\ got' = <<>>
             /\ UNCHANGED <<task, results>>

\* a scan rule: an exception of a read ends the rule with the issues it has,
\* none (lines 55-57, 289-291 and the like); after the last read the rule
\* works on its payloads and returns or raises; the task is then done
RuleStep(payload, raised) ==
    LET data == Append(got, payload)
        finish(outcome) ==
            /\ results' = [results EXCEPT ![task].status = outcome.status,
                                          ![task].issues = outcome.issues]
            /\ task' = None
            /\ pc' = "gather"
            /\ idx' = 0
            /\ got' = <<>>
            /\ UNCHANGED <<op, ret>>
    IN  IF raised THEN finish(Returned(<<>>))
        ELSE IF idx < Len(RuleReads(task))
        THEN /\ got' = data
             /\ idx' = idx + 1
             /\ pc' = "call"
             /\ UNCHANGED <<op, ret, task, results>>
        ELSE finish(RuleOutcome(task, data))

\* the client call returns payload, or raises, to its caller
Resume(payload, raised) ==
    CASE op.name = "get" -> GetDone(payload, raised)
      [] op.name = "get_resource_health" -> HealthStep(payload, raised)
      [] op.name = "scan_all" -> RuleStep(payload, raised)

-----------------------------------------------------------------------------
(* Actions.                                                                *)

\* time passes: between the calls, and while the thread is blocked in a
\* live read (the code in between takes no time at this resolution)
Tick ==
    /\ pc \in {"idle", "live"}
    /\ \E d \in TickSteps : now + d <= MaxNow /\ now' = now + d
    /\ UNCHANGED <<podNamespace, namespace, option, cache, op, pc, task, idx, got,
                   live, results, ret, lastCall, ncalls, idLog,
                   current_agent, reply, cleared>>
    /\ UNCHANGED otherVars

\* somebody calls get_pods, get_deployments or get_events of a client
GetCall ==
    /\ pc = "idle"
    /\ ncalls < MaxCalls
    /\ \E caller \in GetCallers, kind \in Kinds :
          op' = [name |-> "get", client |-> caller[1], kind |-> kind,
                 namespace |-> caller[2]]
    /\ pc' = "call"
    /\ idx' = 1
    /\ got' = <<>>
    /\ ret' = NoRet
    /\ ncalls' = ncalls + 1
    /\ lastCall' = NoCall
    /\ results' = [r \in RuleNames |-> IdleRule]
    /\ UNCHANGED <<now, podNamespace, namespace, option, cache, task, live, idLog,
                   current_agent, reply, cleared>>
    /\ UNCHANGED otherVars

\* main.py's health command: ctx.obj['discovery'].get_resource_health(namespace)
HealthCall ==
    /\ pc = "idle"
    /\ ncalls < MaxScans
    /\ op' = [name |-> "get_resource_health", client |-> "cli",
              kind |-> None, namespace |-> option]
    /\ pc' = "call"
    /\ idx' = 1
    /\ got' = <<>>
    /\ ret' = NoRet
    /\ ncalls' = ncalls + 1
    /\ lastCall' = NoCall
    /\ results' = [r \in RuleNames |-> IdleRule]
    /\ UNCHANGED <<now, podNamespace, namespace, option, cache, task, live, idLog,
                   current_agent, reply, cleared>>
    /\ UNCHANGED otherVars

\* main.py's scan command: ctx.obj['discovery'].scan_all(namespace), lines
\* 18-35, up to the await of gather, which has made one task of every rule
ScanAllCall ==
    /\ pc = "idle"
    /\ ncalls < MaxScans
    /\ op' = [name |-> "scan_all", client |-> "cli", kind |-> None,
              namespace |-> option]
    /\ results' = [r \in RuleNames |->
                      [status |-> "pending", ns |-> ScanNamespace(option),
                       issues |-> <<>>]]
    /\ pc' = "gather"
    /\ task' = None
    /\ idx' = 0
    /\ got' = <<>>
    /\ ret' = NoRet
    /\ ncalls' = ncalls + 1
    /\ lastCall' = NoCall
    /\ UNCHANGED <<now, podNamespace, namespace, option, cache, live, idLog,
                   current_agent, reply, cleared>>
    /\ UNCHANGED otherVars

\* the first task that has not run yet, in the order gather made them
NextPending(r) ==
    \E i \in 1..Len(Rules) :
        /\ Rules[i] = r
        /\ results[r].status = "pending"
        /\ \A j \in 1..(i - 1) : results[Rules[j]].status # "pending"

\* the event loop, free because scan_all awaits gather, runs the next task;
\* the rule runs to its first client call
RuleStart(r) ==
    /\ pc = "gather"
    /\ NextPending(r)
    /\ task' = r
    /\ results' = [results EXCEPT ![r].status = "running"]
    /\ pc' = "call"
    /\ idx' = 1
    /\ got' = <<>>
    /\ UNCHANGED <<now, podNamespace, namespace, option, cache, op, live, ret,
                   lastCall, ncalls, idLog,
                   current_agent, reply, cleared>>
    /\ UNCHANGED otherVars

\* K8sClient.get_pods / get_events / get_deployments, up to the live read:
\* lines 46-51.  A truthy cached value is returned at once.
ClientCall ==
    /\ pc = "call"
    /\ LET c == op.client
           kind == Reads[idx]
           ns == ClientNamespace(c, CallNamespace)
           cache_key == CacheKey(kind, ns)
           cached == _get_from_cache(c, cache_key)
           seen == [client |-> c, origin |-> op.name, arg |-> op.namespace,
                    kind |-> kind, namespace |-> CallNamespace, ns |-> ns,
                    key |-> cache_key,
                    valid |-> _is_cache_valid(c, cache_key),
                    elsewhere |-> \E c2 \in Agents \ {c} :
                                     Truthy(_get_from_cache(c2, cache_key)),
                    served |-> None, failure |-> None, outcome |-> None,
                    size |-> 0]
       IN  IF Truthy(cached)
           THEN /\ lastCall' = [seen EXCEPT !.served = "cache",
                                            !.outcome = "returned",
                                            !.size = Len(cached.data)]
                /\ live' = NoLive
                /\ Resume(cached.data, FALSE)
           ELSE /\ lastCall' = [seen EXCEPT !.served = "live"]
                /\ live' = [kind |-> kind, ns |-> ns, key |-> cache_key]
                /\ pc' = "live"
                /\ UNCHANGED <<op, task, idx, got, results, ret>>
    /\ UNCHANGED <<now, podNamespace, namespace, option, cache, ncalls, idLog,
                   current_agent, reply, cleared>>
    /\ UNCHANGED otherVars

\* list_namespaced_pod / _event / _deployment answers: lines 54-71, the
\* records are derived, stored in the cache and returned
LiveReadOk ==
    /\ pc = "live"
    /\ \E payload \in Payloads(live.kind, live.ns) :
          /\ cache' = _set_cache(op.client, live.key, payload)
          /\ lastCall' = [lastCall EXCEPT !.outcome = "returned",
                                          !.size = Len(payload)]
          /\ Resume(payload, FALSE)
    /\ live' = NoLive
    /\ UNCHANGED <<now, podNamespace, namespace, option, ncalls, idLog,
                   current_agent, reply, cleared>>
    /\ UNCHANGED otherVars

\* a failed live read that stores the empty list it returns
LiveReadFail_StoresEmpty ==
    /\ pc = "live"
    /\ \E failure \in Failures :
          /\ lastCall' = [lastCall EXCEPT
                             !.failure = failure,
                             !.outcome = IF Caught(failure) THEN "returned"
                                         ELSE "raised"]
          /\ Resume(<<>>, ~Caught(failure))
    /\ cache' = _set_cache(op.client, live.key, <<>>)
    /\ live' = NoLive
    /\ UNCHANGED <<now, podNamespace, namespace, option, ncalls, idLog,
                   current_agent, reply, cleared>>
    /\ UNCHANGED otherVars

\* the live read fails: lines 73-75 catch an ApiException and return [];
\* any other exception leaves get_* and reaches its caller
LiveReadFail ==
    /\ pc = "live"
    /\ \E failure \in Failures :
          /\ lastCall' = [lastCall EXCEPT
                             !.failure = failure,
                             !.outcome = IF Caught(failure) THEN "returned"
                                         ELSE "raised"]
          /\ Resume(<<>>, ~Caught(failure))
    /\ live' = NoLive
    /\ UNCHANGED <<now, podNamespace, namespace, option, cache, ncalls, idLog,
                   current_agent, reply, cleared>>
    /\ UNCHANGED otherVars

\* gather is done: scan_all collects the lists and returns, lines 37-43
ScanAllReturn ==
    /\ pc = "gather"
    /\ AllRulesFinished
    /\ ret' = ScanAllOutcome(results)
    /\ op' = NoOp
    /\ pc' = "idle"
    /\ UNCHANGED <<now, podNamespace, namespace, option, cache, task, idx, got, live,
                   results, lastCall, ncalls, idLog,
                   current_agent, reply, cleared>>
    /\ UNCHANGED otherVars

\* the client and its direct callers
Next ==
    \/ Tick
    \/ GetCall
    \/ ClientCall
    \/ LiveReadOk
    \/ LiveReadFail

Spec == Init /\ [][Next]_vars

\* the scan orchestrator over the client
NextScan ==
    \/ Tick
    \/ HealthCall
    \/ ScanAllCall
    \/ \E r \in RuleNames : RuleStart(r)
    \/ ClientCall
    \/ LiveReadOk
    \/ LiveReadFail
    \/ ScanAllReturn

SpecScan == Init /\ [][NextScan]_vars

\* a live read that answers with at least one record
LiveReadSome ==
    /\ LiveReadOk
    /\ cache'[op.client][live.key].data # <<>>

\* one scan_all after another against a control plane that answers every
\* list call with at least one record: discovery.py lines 17-43 over
\* k8s_client.py lines 45-135, without the except branches
NextFullScan ==
    \/ Tick
    \/ ScanAllCall
    \/ \E r \in RuleNames : RuleStart(r)
    \/ ClientCall
    \/ LiveReadSome
    \/ ScanAllReturn

SpecFullScan == Init /\ [][NextFullScan]_vars

-----------------------------------------------------------------------------
(* The id scheme by itself: generate_issue_id called at different times.   *)

ResourceNames == {"web-42", "web", "api"}

\* the issue types of discovery.py, and two more that end like a timestamp
IssueTypes == {"status", "restarts", "event", "network-policy",
               "policy-violation", "event-0", "event-15"}

\* a scan rule asks for an id
GenerateIssueId ==
    /\ pc = "idle"
    /\ Len(idLog) < MaxIds
    /\ \E resource_name \in ResourceNames, issue_type \in IssueTypes :
          idLog' = Append(idLog,
                          [resource_name |-> resource_name,
                           issue_type |-> issue_type, at |-> now,
                           id |-> generate_issue_id(resource_name, issue_type)])
    /\ UNCHANGED <<now, podNamespace, namespace, option, cache, op, pc, task,
                   idx, got, live, results, ret, lastCall, ncalls,
                   current_agent, reply, cleared>>
    /\ UNCHANGED otherVars

NextId ==
    \/ Tick
    \/ GenerateIssueId

SpecId == Init /\ [][NextId]_vars

-----------------------------------------------------------------------------
(* The command-safety validator, src/src/command_validator.py.             *)

ALLOWED_COMMANDS == {"get", "describe", "logs", "top"}

FORBIDDEN_FLAGS == {"-o jsonpath", "-o=jsonpath", "--dry-run", "--overrides"}

\* validate_kubectl_command: the pair (allowed, message)
validate_kubectl_command(command) ==
    LET parts == Words(command)
        forbidden == {i \in 1..Len(parts) : parts[i] \in FORBIDDEN_FLAGS}
        part == parts[CHOOSE i \in forbidden : \A j \in forbidden : i <= j]
    IN  IF parts = <<>> THEN [allowed |-> FALSE, message |-> "Empty command"]
        ELSE IF parts[1] \notin ALLOWED_COMMANDS
        THEN [allowed |-> FALSE,
              message |-> "Command '" \o parts[1]
                  \o "' is not allowed. Only read-only commands are permitted."]
        ELSE IF forbidden # {}
        THEN [allowed |-> FALSE,
              message |-> "Flag '" \o part \o "' is not allowed."]
        ELSE IF \/ Contains(command, ";") \/ Contains(command, "|")
                \/ Contains(command, ">") \/ Contains(command, "&")
        THEN [allowed |-> FALSE, message |-> "Shell operators are not allowed."]
        ELSE [allowed |-> TRUE, message |-> "Command is valid"]

-----------------------------------------------------------------------------
(* The agents, src/src/agents.py: what Agent.execute does with a query.   *)
(* An agent answers at once with a text, raises, or first reads through    *)
(* its client.                                                             *)

Text(text) == [kind |-> "text", text |-> text, read |-> None, arg |-> None]
Raises(error) == [kind |-> "raised", text |-> error, read |-> None, arg |-> None]
ReadsFirst(read, arg) == [kind |-> "reads", text |-> None, read |-> read, arg |-> arg]

\* MockAI.analyze_issue, lines 45-64; issue is <<>> for a python None, whose
\* attribute title does not exist
analyze_issue(issue) ==
    IF issue = <<>>
    THEN Raises("AttributeError: 'NoneType' object has no attribute 'title'")
    ELSE LET issue_text == Lower(issue[1].title \o " " \o issue[1].description)
             n == IF issue[1].priority = "critical" THEN 1
                  ELSE IF issue[1].priority = "warning" THEN 2 ELSE 3
             pick(keyword) == keyword \o "-" \o ToString(n)
         IN  Text(IF Contains(issue_text, "crash") THEN pick("crash")
                  ELSE IF Contains(issue_text, "pending") THEN pick("pending")
                  ELSE IF Contains(issue_text, "image") THEN pick("image")
                  ELSE IF Contains(issue_text, "network") THEN pick("network")
                  ELSE IF Contains(issue_text, "resource") THEN pick("resource")
                  ELSE pick("general"))

\* TroubleshooterAgent.execute, lines 34-79
TroubleshooterExecute(query) ==
    IF StartsWith(query, "scan") \/ query = "analyze"
    THEN ReadsFirst("scan_all", None)
    ELSE IF StartsWith(query, "health")
    THEN ReadsFirst("get_resource_health", None)
    ELSE IF StartsWith(query, "analyze")
    THEN IF Len(Words(query)) > 1
         THEN ReadsFirst("_analyze_resource", Words(query)[2])
         ELSE Text("Please specify a resource name to analyze. Example: analyze web-app-123")
    ELSE analyze_issue(<<>>)

\* DiscoveryAgent.execute, lines 118-144
DiscoveryExecute(query) ==
    IF query \in {"pods", "deployments", "events"}
    THEN ReadsFirst("get", query)
    ELSE Text("Available commands: pods, deployments, events")

\* LogsAgent.execute, lines 151-184
LogsExecute(query) ==
    IF StartsWith(query, "get")
    THEN IF Len(Words(query)) > 1
         THEN ReadsFirst("logs-get", Words(query)[2])
         ELSE Text("Please specify a pod name. Example: get web-app-123")
    ELSE IF StartsWith(query, "errors")
    THEN IF Len(Words(query)) > 1
         THEN ReadsFirst("logs-errors", Words(query)[2])
         ELSE Text("Please specify a pod name. Example: errors web-app-123")
    ELSE Text("Available commands: get <pod-name> [lines], errors <pod-name>")

\* ResourceAgent.execute, lines 191-207 (the text of "top" without its
\* backquotes)
ResourceExecute(query) ==
    IF query = "top"
    THEN Text("Resource usage analysis would require metrics server. Use kubectl top pods for current usage.")
    ELSE IF query = "pressure"
    THEN Text("Checking for resource pressure...\nNo immediate resource pressure detected in current namespace.")
    ELSE IF StartsWith(query, "describe")
    THEN IF Len(Words(query)) > 2
         THEN Text("Run: kubectl describe " \o Words(query)[2] \o " "
                   \o Words(query)[3] \o " -n " \o podNamespace)
         ELSE Text("Usage: describe <resource-type> <resource-name>")
    ELSE Text("Available commands: top, pressure, describe <type> <name>")

\* NetworkAgent.execute, lines 214-224; its strings are no f-strings
NetworkExecute(query) ==
    IF query = "connectivity"
    THEN Text("Network connectivity check requires additional tools. Consider using netshoot or similar debugging pods.")
    ELSE IF query = "policies"
    THEN Text("Run: kubectl get networkpolicies -n {get_pod_namespace()} to view network policies.")
    ELSE IF query = "endpoints"
    THEN Text("Run: kubectl get endpoints -n {get_pod_namespace()} to view service endpoints.")
    ELSE Text("Available commands: connectivity, policies, endpoints")

\* SecurityAgent.execute, lines 231-241
SecurityExecute(query) ==
    IF query = "rbac"
    THEN Text("Run: kubectl auth can-i --list to view RBAC permissions.")
    ELSE IF query = "secrets"
    THEN Text("Checking secrets...\nNo security issues detected with current secret configurations.")
    ELSE IF query = "images"
    THEN Text("Image security scanning would require additional tools. Consider using Trivy or similar scanners.")
    ELSE Text("Available commands: rbac, secrets, images")

\* self.agents[name].execute(query), up to its first client read
Execute(name, query) ==
    CASE name = "troubleshooter" -> TroubleshooterExecute(query)
      [] name = "discovery" -> DiscoveryExecute(query)
      [] name = "logs" -> LogsExecute(query)
      [] name = "resource" -> ResourceExecute(query)
      [] name = "network" -> NetworkExecute(query)
      [] name = "security" -> SecurityExecute(query)

-----------------------------------------------------------------------------
(* The responses the agents build from what they have read.  The icons of  *)
(* the response texts are left out.                                        *)

\* s[:n]
FirstN(s, n) == IF Len(s) <= n THEN s ELSE SubSeq(s, 1, n)

\* "".join(lines)
RECURSIVE Concat(_)
Concat(lines) == IF lines = <<>> THEN "" ELSE Head(lines) \o Concat(Tail(lines))

\* sep.join(lines)
RECURSIVE Join(_, _)
Join(sep, lines) ==
    IF lines = <<>> THEN ""
    ELSE IF Len(lines) = 1 THEN lines[1]
    ELSE lines[1] \o sep \o Join(sep, Tail(lines))

\* s.split("\n")
RECURSIVE SplitLines(_)
SplitLines(s) ==
    IF ~Contains(s, "\n") THEN <<s>>
    ELSE LET i == CHOOSE i \in 1..Len(s) :
                     /\ SubSeq(s, i, i) = "\n"
                     /\ \A j \in 1..(i - 1) : SubSeq(s, j, j) # "\n"
         IN  <<SubSeq(s, 1, i - 1)>> \o SplitLines(SubSeq(s, i + 1, Len(s)))

\* str(True), str(False)
StrBool(b) == IF b THEN "True" ELSE "False"

\* the response of TroubleshooterAgent.execute to a scan, lines 36-63
ScanReport(issues) ==
    LET critical_issues == SelectSeq(issues, LAMBDA i : i.priority = "critical")
        warning_issues == SelectSeq(issues, LAMBDA i : i.priority = "warning")
        info_issues == SelectSeq(issues, LAMBDA i : i.priority = "info")
        critical(i) == <<"  * " \o i.title \o "\n    " \o i.description
                         \o "\n    Resource: " \o i.resource_type \o "/"
                         \o i.resource_name \o "\n\n">>
        warning(i) == <<"  * " \o i.title \o "\n    " \o i.description \o "\n\n">>
        info(i) == <<"  * " \o i.title \o "\n\n">>
    IN  IF issues = <<>> THEN "No issues detected in the cluster."
        ELSE "Found " \o ToString(Len(issues)) \o " issues:\n"
             \o (IF critical_issues # <<>>
                 THEN "\nCRITICAL (" \o ToString(Len(critical_issues)) \o "):\n"
                      \o Concat(FlatMap(critical, FirstN(critical_issues, 5)))
                 ELSE "")
             \o (IF warning_issues # <<>>
                 THEN "\nWARNING (" \o ToString(Len(warning_issues)) \o "):\n"
                      \o Concat(FlatMap(warning, FirstN(warning_issues, 5)))
                 ELSE "")
             \o (IF info_issues # <<>>
                 THEN "\nINFO (" \o ToString(Len(info_issues)) \o "):\n"
                      \o Concat(FlatMap(info, FirstN(info_issues, 3)))
                 ELSE "")

\* MockAI.analyze_cluster_health, lines 93-118
analyze_cluster_health(health_summary) ==
    LET pods == health_summary.pods
        deployments == health_summary.deployments
        events == health_summary.events
        issues ==
            (IF pods.healthy < pods.total
             THEN <<ToString(pods.total - pods.healthy) \o " pods are unhealthy">>
             ELSE <<>>)
            \o (IF deployments.healthy < deployments.total
                THEN <<ToString(deployments.total - deployments.healthy)
                       \o " deployments have issues">>
                ELSE <<>>)
            \o (IF events.errors > 0
                THEN <<ToString(events.errors) \o " error events detected">>
                ELSE <<>>)
            \o (IF events.warnings > 5
                THEN <<ToString(events.warnings) \o " warning events (high)">>
                ELSE <<>>)
    IN  IF health_summary.overall_health = "healthy"
        THEN "Cluster appears healthy. All pods and deployments are running as expected."
        ELSE IF issues # <<>>
        THEN "Cluster health degraded: " \o Join(", ", issues)
             \o ". Investigate critical issues first."
        ELSE "Cluster has some concerns but no immediate critical issues."

\* TroubleshooterAgent._analyze_resource after get_pods returned pods, lines
\* 85-107.  The pods of the second read, that of _scan_pods, are those of the
\* first: it is made at once, for the same key, and finds the entry the
\* first read used or stored (an empty list has no target pod).
AnalyzeReport(resource_name, pods) ==
    LET found == SelectSeq(pods, LAMBDA p : Contains(p.name, resource_name))
        target_pod == found[1]
        pod_issues == SelectSeq(ScanPods(pods).issues,
                                LAMBDA i : i.resource_name = target_pod.name)
        one(i) == <<"  * " \o i.title \o "\n    " \o i.description \o "\n\n">>
    IN  IF found = <<>>
        THEN "Resource '" \o resource_name \o "' not found or not accessible."
        ELSE "Analysis for pod " \o target_pod.name \o ":\n"
             \o "Status: " \o target_pod.status \o "\n"
             \o "Ready: " \o StrBool(target_pod.ready) \o "\n"
             \o "Restarts: " \o ToString(target_pod.restarts) \o "\n"
             \o "Node: " \o Str(target_pod.node) \o "\n\n"
             \o (IF pod_issues # <<>>
                 THEN "Issues detected:\n" \o Concat(FlatMap(one, pod_issues))
                 ELSE "No specific issues detected for this pod.\n")

\* the responses of DiscoveryAgent.execute, lines 120-141
PodsReport(pods) ==
    LET one(pod) == <<pod.name \o " (" \o pod.status \o ")\n">>
    IN  "Found " \o ToString(Len(pods)) \o " pods:\n"
        \o Concat(FlatMap(one, FirstN(pods, 10)))

DeploymentsReport(deployments) ==
    LET one(dep) == <<dep.name \o " (" \o ToString(dep.ready) \o "/"
                      \o ToString(dep.replicas) \o ")\n">>
    IN  "Found " \o ToString(Len(deployments)) \o " deployments:\n"
        \o Concat(FlatMap(one, FirstN(deployments, 10)))

EventsReport(events) ==
    LET one(event) == <<Str(event.reason) \o " on " \o event.object_name \o "\n   "
                        \o FirstN(event.message, 100) \o "...\n\n">>
    IN  "Recent events (last hour):\n" \o Concat(FlatMap(one, FirstN(events, 10)))

ErrorKeywords == {"error", "exception", "failed", "panic"}

\* the responses of LogsAgent.execute, lines 160 and 171-179
LogsReport(pod_name, lines, logs) ==
    "Logs for " \o pod_name \o " (last " \o ToString(lines) \o " lines):\n" \o logs

ErrorsReport(pod_name, logs) ==
    LET error_lines ==
            SelectSeq(SplitLines(logs),
                      LAMBDA line : \E keyword \in ErrorKeywords :
                                       Contains(Lower(line), keyword))
    IN  IF error_lines # <<>>
        THEN "Error patterns in " \o pod_name \o " logs:\n"
             \o Join("\n", LastN(error_lines, 10))
        ELSE "No error patterns found in " \o pod_name \o " logs."

-----------------------------------------------------------------------------
(* K8sClient.get_pod_logs and K8sClient.clear_cache.                       *)

\* what read_namespaced_pod_log may answer
LogTexts == {"", "started\nERROR: connection failed\nready"}

\* the callers of get_pod_logs, as (client, pod name, lines): LogsAgent.execute
\* and the logs command of main.py
LogCallers == {<<"logs", "web-42", 100>>, <<"cli", "web-42", 50>>}

\* the clients whose clear_cache is called
ClearCallers == {"cli"}

\* the cache after a get_pod_logs call that read logs for pod_name in ns:
\* lines 164-173 hold no cache access
CacheAfterLogs_Stored(c, ns, pod_name, logs) ==
    _set_cache(c, CacheKey("logs", ns) \o "-" \o pod_name, <<logs>>)

CacheAfterLogs(c, ns, pod_name, logs) == cache

\* clear_cache that drops the expired entries only
clear_cache_ExpiredOnly(c) ==
    [cache EXCEPT ![c] =
        [k \in {x \in DOMAIN @ : _is_cache_valid(c, x)} |-> @[k]]]

\* K8sClient.clear_cache: self.cache.clear()
clear_cache(c) == [cache EXCEPT ![c] = <<>>]

\* get_pod_logs up to its read, lines 164-166: the thread is in
\* read_namespaced_pod_log
PodLogsStart(c, pod_name, lines) ==
    /\ op' = [name |-> "get_pod_logs", client |-> c, kind |-> "logs",
              namespace |-> None]
    /\ live' = [kind |-> "logs", ns |-> ClientNamespace(c, None), key |-> pod_name]
    /\ lastCall' = [NoCall EXCEPT !.client = c, !.origin = "get_pod_logs",
                                  !.arg = pod_name, !.kind = "logs",
                                  !.ns = ClientNamespace(c, None),
                                  !.size = lines, !.served = "live"]
    /\ pc' = "logs"
    /\ idx' = 0
    /\ got' = <<>>
    /\ ret' = NoRet

\* somebody calls get_pod_logs of a client
PodLogsCall ==
    /\ pc = "idle"
    /\ ncalls < MaxCalls
    /\ \E caller \in LogCallers : PodLogsStart(caller[1], caller[2], caller[3])
    /\ ncalls' = ncalls + 1
    /\ UNCHANGED <<now, podNamespace, namespace, option, cache, task, results,
                   idLog, current_agent, reply, cleared>>
    /\ UNCHANGED otherVars

\* read_namespaced_pod_log answers: line 171 returns the text
LogReadOk ==
    /\ pc = "logs"
    /\ \E logs \in LogTexts :
          /\ ret' = [name |-> "get_pod_logs", status |-> "returned", value |-> logs]
          /\ cache' = CacheAfterLogs(op.client, live.ns, live.key, logs)
    /\ lastCall' = [lastCall EXCEPT !.outcome = "returned"]
    /\ op' = NoOp
    /\ pc' = "idle"
    /\ live' = NoLive
    /\ UNCHANGED <<now, podNamespace, namespace, option, task, idx, got, results,
                   ncalls, idLog, current_agent, reply, cleared>>
    /\ UNCHANGED otherVars

\* read_namespaced_pod_log fails: lines 172-173 turn an ApiException into a
\* text; any other exception leaves get_pod_logs and reaches its caller
LogReadFail ==
    /\ pc = "logs"
    /\ \E failure \in Failures :
          /\ lastCall' = [lastCall EXCEPT
                             !.failure = failure,
                             !.outcome = IF Caught(failure) THEN "returned"
                                         ELSE "raised"]
          /\ ret' = [name |-> "get_pod_logs",
                     status |-> IF Caught(failure) THEN "returned" ELSE "raised",
                     value |-> IF Caught(failure)
                               THEN "Error getting logs: " \o failure
                               ELSE failure]
    /\ op' = NoOp
    /\ pc' = "idle"
    /\ live' = NoLive
    /\ UNCHANGED <<now, podNamespace, namespace, option, cache, task, idx, got,
                   results, ncalls, idLog, current_agent, reply, cleared>>
    /\ UNCHANGED otherVars

\* somebody calls clear_cache of a client
ClearCache ==
    /\ pc = "idle"
    /\ cleared.n < MaxClears
    /\ \E c \in ClearCallers :
          /\ cache' = clear_cache(c)
          /\ cleared' = [client |-> c, n |-> cleared.n + 1, calls |-> ncalls,
                         fresh |-> {k \in DOMAIN cache[c] :
                                       Truthy(_get_from_cache(c, k))}]
    /\ ret' = [name |-> "clear_cache", status |-> "returned", value |-> <<>>]
    /\ lastCall' = NoCall
    /\ UNCHANGED <<now, podNamespace, namespace, option, op, pc, task, idx, got,
                   live, results, ncalls, idLog, current_agent, reply>>
    /\ UNCHANGED otherVars

\* the clients, with no scan or health command to take an option
InitClient ==
    /\ Init
    /\ option = None

\* the client with its log read and its reset
NextClient ==
    \/ Tick
    \/ GetCall
    \/ ClientCall
    \/ LiveReadOk
    \/ LiveReadFail
    \/ PodLogsCall
    \/ LogReadOk
    \/ LogReadFail
    \/ ClearCache

SpecClient == InitClient /\ [][NextClient]_vars

-----------------------------------------------------------------------------
(* AgentSystem, src/src/agents.py lines 243-314.                           *)

\* self.agents, in the order of the dict, with the agents' descriptions
AgentOrder == <<"troubleshooter", "discovery", "logs", "resource", "network",
                "security">>

Description(name) ==
    CASE name = "troubleshooter" -> "Main agent for Kubernetes troubleshooting"
      [] name = "discovery" -> "Discovers and analyzes cluster resources"
      [] name = "logs" -> "Retrieves and analyzes pod logs"
      [] name = "resource" -> "Analyzes resource usage and constraints"
      [] name = "network" -> "Analyzes network connectivity and policies"
      [] name = "security" -> "Analyzes security configurations and compliance"

\* what the user types: commands for every branch of execute_command and of
\* the agents' execute
Commands ==
    {"@", "@logs", "@discovery", "@security", "@nobody", "@Logs",
     "@discovery pods", "@logs get web-42 20", "@logs errors web-42",
     "@resource bogus", "@network bogus", "@security bogus", "@logs ",
     "@nobody pods", "@troubleshooter hello", "@troubleshooter analyze web",
     "/agents", "/help", "/bogus",
     "!get pods", "!delete pod web-42", "!get pods; rm -rf /",
     "!get pods --dry-run", "!",
     "pods", "events", "hello", "scan", "health", "analyze", "get", "rbac",
     "describe pod web-42"}

\* the names set_current_agent is called with
AgentNames == Agents \cup {"nobody", ""}

\* set_current_agent that assigns without looking the name up
set_current_agent_Unchecked(name) == [current_agent |-> name, result |-> TRUE]

\* AgentSystem.set_current_agent: the agent afterwards, and the result
set_current_agent(name) ==
    IF name \in Agents
    THEN [current_agent |-> name, result |-> TRUE]
    ELSE [current_agent |-> current_agent, result |-> FALSE]

\* get_current_agent that gives the agent the system starts with
get_current_agent_Initial == "troubleshooter"

\* AgentSystem.get_current_agent, as the name of the agent
get_current_agent == current_agent

\* where execute_command sends a command: the agent that executes (by) and
\* its query, or the text returned at once, and current_agent afterwards
Routed(route, by, query, text, next) ==
    [route |-> route, by |-> by, query |-> query, text |-> text, next |-> next]

\* "@name" that leaves current_agent alone
SwitchAgent_NoAssignment(agent_name) ==
    Routed("switch", None, None, "Switched to " \o agent_name \o " agent",
           current_agent)

\* "@name", lines 282-284
SwitchAgent(agent_name) ==
    Routed("switch", None, None, "Switched to " \o agent_name \o " agent",
           agent_name)

\* "@name rest" that also selects the agent
DirectCommand_Selects(agent_name, rest) ==
    Routed("direct", agent_name, rest, None, agent_name)

\* "@name rest", lines 278-280
DirectCommand(agent_name, rest) ==
    Routed("direct", agent_name, rest, None, current_agent)

\* "/agents", lines 291-295
AgentsList ==
    LET one(name) == <<"* @" \o name
                       \o (IF name = current_agent THEN " (current)" ELSE "")
                       \o " - " \o Description(name) \o "\n">>
    IN  "Available agents:\n" \o Concat(FlatMap(one, AgentOrder))

HelpText ==
    "Stargazer Commands:\n  /agents - List available agents\n  /help - Show this help\n  @agentname - Switch to specific agent\n  @agentname command - Execute command on specific agent\n  !kubectl command - Execute kubectl command"

\* "!raw", lines 308-310
RawCommand(raw) == Routed("raw", None, None, "Run: " \o raw, current_agent)

\* AgentSystem.execute_command, lines 272-314, up to the agent's execute
Route(command) ==
    IF StartsWith(command, "@")
    THEN LET parts == SplitOnce(SubSeq(command, 2, Len(command)))
             agent_name == parts[1]
         IN  IF agent_name \in Agents
             THEN IF Len(parts) > 1 THEN DirectCommand(agent_name, parts[2])
                  ELSE SwitchAgent(agent_name)
             ELSE Routed("unknown-agent", None, None,
                         "Unknown agent: " \o agent_name, current_agent)
    ELSE IF StartsWith(command, "/")
    THEN Routed("system", None, None,
                IF command = "/agents" THEN AgentsList
                ELSE IF command = "/help" THEN HelpText
                ELSE "Unknown command: " \o command,
                current_agent)
    ELSE IF StartsWith(command, "!")
    THEN RawCommand(SubSeq(command, 2, Len(command)))
    ELSE Routed("current", get_current_agent, command, None, current_agent)

\* int(s) of a string of digits
RECURSIVE ParseInt(_)
ParseInt(s) ==
    IF s = "" THEN 0
    ELSE 10 * ParseInt(SubSeq(s, 1, Len(s) - 1))
         + (CHOOSE d \in 0..9 : ToString(d) = SubSeq(s, Len(s), Len(s)))

\* the lines argument of LogsAgent.execute's get_pod_logs call
LogLines(read, query) ==
    IF read = "logs-errors" THEN 100
    ELSE IF Len(Words(query)) > 2 /\ IsDigit(Words(query)[3])
    THEN ParseInt(Words(query)[3]) ELSE 50

\* an agent's execute goes into its first read: Discovery.scan_all() and
\* get_resource_health() of the agent's own Discovery, get_pods() and the
\* like, or get_pod_logs, all with no namespace argument
StartRead(c, e, query) ==
    CASE e.read = "scan_all" ->
            /\ op' = [name |-> "scan_all", client |-> c, kind |-> None,
                      namespace |-> None]
            /\ results' = [r \in RuleNames |->
                              [status |-> "pending", ns |-> ScanNamespace(None),
                               issues |-> <<>>]]
            /\ pc' = "gather"
            /\ task' = None
            /\ idx' = 0
            /\ got' = <<>>
            /\ ret' = NoRet
            /\ lastCall' = NoCall
            /\ UNCHANGED live
      [] e.read = "get_resource_health" ->
            /\ op' = [name |-> "get_resource_health", client |-> c,
                      kind |-> None, namespace |-> None]
            /\ results' = [r \in RuleNames |-> IdleRule]
            /\ pc' = "call"
            /\ idx' = 1
            /\ got' = <<>>
            /\ ret' = NoRet
            /\ lastCall' = NoCall
            /\ UNCHANGED <<task, live>>
      [] e.read \in {"get", "_analyze_resource"} ->
            /\ op' = [name |-> "get", client |-> c,
                      kind |-> IF e.read = "get" THEN e.arg ELSE "pods",
                      namespace |-> None]
            /\ results' = [r \in RuleNames |-> IdleRule]
            /\ pc' = "call"
            /\ idx' = 1
            /\ got' = <<>>
            /\ ret' = NoRet
            /\ lastCall' = NoCall
            /\ UNCHANGED <<task, live>>
      [] e.read \in {"logs-get", "logs-errors"} ->
            /\ PodLogsStart(c, e.arg, LogLines(e.read, query))
            /\ UNCHANGED <<task, results>>

\* the rest of the agent's execute once its read is over, with ret what the
\* read gave: the response, or the exception of the read that nothing caught
Response(read, arg, lines) ==
    CASE read = "scan_all" -> Text(ScanReport(ret.value))
      [] read = "get_resource_health" -> Text(analyze_cluster_health(ret.value))
      [] read = "get" ->
            IF ret.status = "raised" THEN Raises(lastCall.failure)
            ELSE Text(CASE arg = "pods" -> PodsReport(ret.value)
                        [] arg = "deployments" -> DeploymentsReport(ret.value)
                        [] arg = "events" -> EventsReport(ret.value))
      [] read = "_analyze_resource" ->
            IF ret.status = "raised"
            THEN Text("Error analyzing resource: " \o lastCall.failure)
            ELSE Text(AnalyzeReport(arg, ret.value))
      [] read = "logs-get" ->
            IF ret.status = "raised" THEN Raises(lastCall.failure)
            ELSE Text(LogsReport(arg, lines, ret.value))
      [] read = "logs-errors" ->
            IF ret.status = "raised" THEN Raises(lastCall.failure)
            ELSE Text(ErrorsReport(arg, ret.value))

\* the user's command reaches AgentSystem.execute_command: lines 272-314,
\* into the agent's execute up to its first read, or to the end
ExecuteCommand ==
    /\ pc = "idle"
    /\ reply.status # "pending"
    /\ ncalls < MaxCommands
    /\ \E command \in Commands :
          LET r == Route(command)
              e == IF r.by = None THEN Text(r.text) ELSE Execute(r.by, r.query)
              called == [command |-> command, status |-> "pending",
                         route |-> r.route, by |-> r.by, text |-> None,
                         was |-> current_agent,
                         selected |-> IF r.route = "switch"
                                      THEN SubSeq(command, 2, Len(command))
                                      ELSE reply.selected,
                         read |-> e.read, arg |-> e.arg,
                         lines |-> IF e.kind = "reads" /\ r.by = "logs"
                                   THEN LogLines(e.read, r.query) ELSE 0,
                         reads |-> reply.reads
                                   + (IF e.kind = "reads" THEN 1 ELSE 0)]
          IN  /\ current_agent' = r.next
              /\ IF e.kind = "reads"
                 THEN /\ reply.reads < MaxReads
                      /\ reply' = called
                      /\ StartRead(r.by, e, r.query)
                 ELSE /\ reply' = [called EXCEPT
                                      !.status = IF e.kind = "raised"
                                                 THEN "raised" ELSE "returned",
                                      !.text = e.text]
                      /\ results' = [q \in RuleNames |-> IdleRule]
                      /\ ret' = NoRet
                      /\ lastCall' = NoCall
                      /\ UNCHANGED <<op, pc, task, idx, got, live>>
    /\ ncalls' = ncalls + 1
    /\ UNCHANGED <<now, podNamespace, namespace, option, cache, idLog, cleared>>
    /\ UNCHANGED otherVars

\* the agent's read is over: the agent builds its response and
\* execute_command returns it, or the exception goes through both
ExecuteReturn ==
    /\ pc = "idle"
    /\ reply.status = "pending"
    /\ LET out == Response(reply.read, reply.arg, reply.lines)
       IN  reply' = [reply EXCEPT
                        !.status = IF out.kind = "raised" THEN "raised"
                                   ELSE "returned",
                        !.text = out.text]
    /\ UNCHANGED <<now, podNamespace, namespace, option, cache, op, pc, task,
                   idx, got, live, results, ret, lastCall, ncalls, idLog,
                   current_agent, cleared>>
    /\ UNCHANGED otherVars

\* the terminal UI's sidebar calls AgentSystem.set_current_agent
SetCurrentAgent ==
    /\ pc = "idle"
    /\ reply.status # "pending"
    /\ ncalls < MaxCommands
    /\ \E name \in AgentNames :
          /\ current_agent' = set_current_agent(name).current_agent
          /\ reply' = [NoReply EXCEPT
                          !.command = name,
                          !.status = "returned",
                          !.route = "set_current_agent",
                          !.text = StrBool(set_current_agent(name).result),
                          !.was = current_agent,
                          !.selected = IF name \in Agents THEN name
                                       ELSE reply.selected,
                          !.reads = reply.reads]
    /\ results' = [q \in RuleNames |-> IdleRule]
    /\ ret' = NoRet
    /\ lastCall' = NoCall
    /\ ncalls' = ncalls + 1
    /\ UNCHANGED <<now, podNamespace, namespace, option, cache, op, pc, task,
                   idx, got, live, idLog, cleared>>
    /\ UNCHANGED otherVars

\* AgentSystem.__init__ in a process without a --namespace option: the
\* clients of the agents take the namespace of the environment
InitRouter ==
    /\ Init
    /\ option = None
    /\ namespace = [c \in Clients |-> podNamespace]

\* the command router over the agents and their clients; the clock plays no
\* part in the routing
NextRouter ==
    \/ ExecuteCommand
    \/ ExecuteReturn
    \/ SetCurrentAgent
    \/ \E r \in RuleNames : RuleStart(r)
    \/ ClientCall
    \/ LiveReadOk
    \/ LiveReadFail
    \/ ScanAllReturn
    \/ LogReadOk
    \/ LogReadFail

SpecRouter == InitRouter /\ [][NextRouter]_vars

-----------------------------------------------------------------------------
(* Issue.to_dict and Issue.from_dict, src/src/utils.py lines 32-55.  Here  *)
(* an Issue holds its priority as the member of the enum, written by its   *)
(* name, and its timestamp as a datetime: a date, the second and the       *)
(* microsecond of the day, and the UTC offset in minutes, <<>> when naive. *)

\* the members of Priority
PriorityMembers == {"CRITICAL", "WARNING", "INFO"}

\* member.value
PriorityValue(member) ==
    CASE member = "CRITICAL" -> "critical"
      [] member = "WARNING" -> "warning"
      [] member = "INFO" -> "info"

\* Priority(value): the member with that value, or a ValueError
PriorityOfValue(value) ==
    IF \E m \in PriorityMembers : PriorityValue(m) = value
    THEN [status |-> "returned",
          value |-> CHOOSE m \in PriorityMembers : PriorityValue(m) = value]
    ELSE [status |-> "raised", value |-> "ValueError"]

\* n in decimal, with zeros in front up to width digits
RECURSIVE ZeroPad(_, _)
ZeroPad(n, width) ==
    IF width = 0 THEN ""
    ELSE ZeroPad(n \div 10, width - 1) \o ToString(n % 10)

\* the UTC offset of datetime.isoformat: +HH:MM or -HH:MM
OffsetText(minutes) ==
    LET m == IF minutes < 0 THEN 0 - minutes ELSE minutes
    IN  (IF minutes < 0 THEN "-" ELSE "+")
        \o ZeroPad(m \div 60, 2) \o ":" \o ZeroPad(m % 60, 2)

\* datetime.isoformat(): the microseconds are left out when they are 0, the
\* offset when the datetime is naive
isoformat(t) ==
    t.date \o "T" \o ZeroPad(t.second \div 3600, 2) \o ":"
    \o ZeroPad((t.second \div 60) % 60, 2) \o ":" \o ZeroPad(t.second % 60, 2)
    \o (IF t.microsecond # 0 THEN "." \o ZeroPad(t.microsecond, 6) ELSE "")
    \o (IF t.utcoffset = <<>> THEN "" ELSE OffsetText(t.utcoffset[1]))

\* datetime.fromisoformat(s), of a text in the format isoformat writes
fromisoformat(s) ==
    LET rest == SubSeq(s, 20, Len(s))
        fraction == StartsWith(rest, ".")
        zone == IF fraction THEN SubSeq(rest, 8, Len(rest)) ELSE rest
        minutes == 60 * ParseInt(SubSeq(zone, 2, 3)) + ParseInt(SubSeq(zone, 5, 6))
    IN  [date |-> SubSeq(s, 1, 10),
         second |-> 3600 * ParseInt(SubSeq(s, 12, 13))
                    + 60 * ParseInt(SubSeq(s, 15, 16))
                    + ParseInt(SubSeq(s, 18, 19)),
         microsecond |-> IF fraction THEN ParseInt(SubSeq(rest, 2, 7)) ELSE 0,
         utcoffset |-> IF zone = "" THEN <<>>
                       ELSE IF StartsWith(zone, "-") THEN <<0 - minutes>>
                       ELSE <<minutes>>]

\* from_dict that reads the fields it knows and takes the time of loading
from_dict_Reloaded(data) ==
    [id |-> data.id, title |-> data.title, description |-> data.description,
     priority |-> PriorityOfValue(data.priority).value,
     resource_type |-> data.resource_type, resource_name |-> data.resource_name,
     namespace |-> data.namespace,
     timestamp |-> [date |-> "2024-05-01", second |-> now, microsecond |-> 0,
                    utcoffset |-> <<0>>]]

\* Issue.from_dict: every key but namespace is read with data[key]
from_dict(data) ==
    [id |-> data.id, title |-> data.title, description |-> data.description,
     priority |-> PriorityOfValue(data.priority).value,
     resource_type |-> data.resource_type, resource_name |-> data.resource_name,
     namespace |-> IF "namespace" \in DOMAIN data THEN data.namespace
                   ELSE "default",
     timestamp |-> fromisoformat(data.timestamp)]

\* Issue.to_dict
to_dict(issue) ==
    [id |-> issue.id, title |-> issue.title, description |-> issue.description,
     priority |-> PriorityValue(issue.priority),
     resource_type |-> issue.resource_type,
     resource_name |-> issue.resource_name, namespace |-> issue.namespace,
     timestamp |-> isoformat(issue.timestamp)]

\* the datetimes of the issues: midnight, the last second of a day, with and
\* without microseconds, naive, UTC and east and west of it
Timestamps ==
    [date : {"2024-05-01"}, second : {0, 3661, 86399},
     microsecond : {0, 7, 123456}, utcoffset : {<<>>, <<0>>, <<330>>, <<-480>>}]

\* the issues that are made: those of the rules, with every priority, in a
\* namespace or in none
IssueObjects ==
    [id : {"web-42-status-15"}, title : {"Pod web-42 in Pending state"},
     description : {"", "Pod is in Pending state instead of Running."},
     priority : PriorityMembers, resource_type : {"pod"},
     resource_name : {"web-42"}, namespace : {"default", None},
     timestamp : Timestamps]

\* an issue is serialized
ToDict ==
    /\ trip.n < MaxTrips
    /\ \E issue \in IssueObjects :
          trip' = [step |-> "dict", issue |-> issue, data |-> to_dict(issue),
                   restored |-> None, n |-> trip.n + 1]
    /\ UNCHANGED <<now, podNamespace, namespace, option, cache, op, pc, task,
                   idx, got, live, results, ret, lastCall, ncalls, idLog,
                   current_agent, reply, cleared, validation, issues_file,
                   appended, config, startup,
                   scanned, loop>>

\* the dict is read back
FromDict ==
    /\ trip.step = "dict"
    /\ trip' = [trip EXCEPT !.step = "restored",
                            !.restored = from_dict(trip.data)]
    /\ UNCHANGED <<now, podNamespace, namespace, option, cache, op, pc, task,
                   idx, got, live, results, ret, lastCall, ncalls, idLog,
                   current_agent, reply, cleared, validation, issues_file,
                   appended, config, startup,
                   scanned, loop>>

NextIssue ==
    \/ ToDict
    \/ FromDict

SpecIssue == Init /\ [][NextIssue]_vars

-----------------------------------------------------------------------------
(* The validator called by itself: validate_kubectl_command on raw         *)
(* commands made of a few words.                                           *)

\* the words of the raw commands: verbs, a resource, the flags of
\* FORBIDDEN_FLAGS as they are typed, alone and with a value, and the shell
\* operators
Vocabulary ==
    {"get", "delete", "pods", "-o", "jsonpath", "-o=jsonpath", "--dry-run",
     "--dry-run=client", "--overrides", ";", "|", ">", "&"}

\* the raw commands: up to MaxWords words with one space between them
RawCommands ==
    {Join(" ", ws) : ws \in UNION {[1..n -> Vocabulary] : n \in 0..MaxWords}}

\* validate_kubectl_command is called, once: it returns its pair
Validate ==
    /\ validation.status = None
    /\ \E command \in RawCommands :
          validation' = [command |-> command, status |-> "returned",
                      allowed |-> validate_kubectl_command(command).allowed,
                      message |-> validate_kubectl_command(command).message]
    /\ UNCHANGED <<now, podNamespace, namespace, option, cache, op, pc, task,
                   idx, got, live, results, ret, lastCall, ncalls, idLog,
                   current_agent, reply, cleared, trip, issues_file, appended,
                   config, startup,
                   scanned, loop>>

NextValidator ==
    \/ Validate

SpecValidator == InitRouter /\ [][NextValidator]_vars

-----------------------------------------------------------------------------
(* Storage, src/src/storage.py.  The file holds a JSON list of the dicts   *)
(* of to_dict: json.dump and json.load give back the same list of texts,   *)
(* so the document is written here as that list.  A file whose writing     *)
(* was cut short holds no JSON document.                                   *)

\* the issue of the i-th append of the runs before this one
EarlierIssue(i) ==
    [id |-> "api-availability-" \o ToString(i),
     title |-> "Deployment api unavailable",
     description |-> "Only 1 of 3 replicas available",
     priority |-> "CRITICAL", resource_type |-> "deployment",
     resource_name |-> "api", namespace |-> "default",
     timestamp |-> [date |-> "2024-05-01", second |-> i, microsecond |-> 0,
                    utcoffset |-> <<0>>]]

\* how many appends the runs before this one made: none, or enough to
\* leave one issue, or the file one short of full, or full
StoredBefore == {0, 1, KeepLast - 1, KeepLast}

\* the issues of this run's scans
NewIssues ==
    {[id |-> "web-42-" \o type \o "-15",
      title |-> "Pod web-42 " \o type,
      description |-> "",
      priority |-> IF type = "status" THEN "CRITICAL" ELSE "WARNING",
      resource_type |-> "pod", resource_name |-> "web-42",
      namespace |-> "default",
      timestamp |-> [date |-> "2024-05-02", second |-> 15, microsecond |-> 7,
                     utcoffset |-> <<0>>]] :
     type \in {"status", "restarts", "readiness"}}

\* how the writing of save_issues can end: the document is written, or an
\* exception (an OSError, or the KeyboardInterrupt that stops the scan
\* loop) ends it after open(..., 'w') has emptied the file
SaveOutcomes == {"written", "cut short"}

\* how the reading of load_issues can end: the document is read, or open,
\* json.load or from_dict raises (an OSError, a document that is not whole)
LoadOutcomes == {"read", "raised"}

\* Storage.load_issues: [] when there is no file, and when reading it raises
load_issues(file, reading) ==
    IF file.kind = "json" /\ reading = "read"
    THEN [i \in 1..Len(file.records) |-> from_dict(file.records[i])]
    ELSE <<>>

\* Storage.save_issues
save_issues(issues, outcome) ==
    IF outcome = "written"
    THEN [kind |-> "json",
          records |-> [i \in 1..Len(issues) |-> to_dict(issues[i])]]
    ELSE [kind |-> "cut short", records |-> <<>>]

\* Storage.append_issue: the file afterwards
append_issue(file, issue, reading, outcome) ==
    save_issues(LastN(Append(load_issues(file, reading), issue), KeepLast),
                outcome)

\* Storage(): the process finds the file the runs before it left
NewStorage ==
    /\ appended.storage = None
    /\ \E k \in StoredBefore :
          /\ appended' = [storage |-> "open", before |-> k, issues |-> <<>>]
          /\ issues_file' =
                IF k = 0 THEN NoFile
                ELSE save_issues([i \in 1..k |-> EarlierIssue(i)], "written")
    /\ UNCHANGED <<now, podNamespace, namespace, option, cache, op, pc, task,
                   idx, got, live, results, ret, lastCall, ncalls, idLog,
                   current_agent, reply, cleared, trip, validation, config,
                   startup,
                   scanned, loop>>

\* the scan loop of main.py, line 82, and the TUI, line 251, store an issue
AppendIssue ==
    /\ appended.storage = "open"
    /\ Len(appended.issues) < MaxAppends
    /\ \E issue \in NewIssues, reading \in LoadOutcomes, outcome \in SaveOutcomes :
          /\ issues_file' = append_issue(issues_file, issue, reading, outcome)
          /\ appended' = [appended EXCEPT !.issues = Append(@, issue)]
    /\ UNCHANGED <<now, podNamespace, namespace, option, cache, op, pc, task,
                   idx, got, live, results, ret, lastCall, ncalls, idLog,
                   current_agent, reply, cleared, trip, validation, config,
                   startup,
                   scanned, loop>>

NextStorage ==
    \/ NewStorage
    \/ AppendIssue

SpecStorage == InitRouter /\ [][NextStorage]_vars

-----------------------------------------------------------------------------
(* The start of the process: K8sClient.__init__, src/src/k8s_client.py     *)
(* lines 9-25, as the entry points call it.                                *)

\* what the environment of a process can offer: a service account in the
\* pod, a kubeconfig of the user, both or neither
Configs == [incluster : BOOLEAN, kubeconfig : BOOLEAN]

\* the entry points: cli() of main.py, and interactive_mode of standalone.py
Entries == {"cli", "standalone"}

\* the clients an entry point constructs, in order: cli() builds its own
\* first and then AgentSystem(), whose agents each build one
BuildOrder(entry) ==
    IF entry = "cli" THEN <<"cli">> \o AgentOrder ELSE AgentOrder

\* a constructor that keeps the object when no configuration loads
K8sClientInit_Swallows(conf) ==
    IF conf.incluster
    THEN [status |-> "returned", client |-> "ready", tried |-> <<"incluster">>]
    ELSE IF conf.kubeconfig
    THEN [status |-> "returned", client |-> "ready",
          tried |-> <<"incluster", "kubeconfig">>]
    ELSE [status |-> "returned", client |-> "half",
          tried |-> <<"incluster", "kubeconfig">>]

\* K8sClient.__init__, lines 14-25: the loaders it tries, and the client it
\* leaves: ready with its four API objects, or none when it raises
K8sClientInit(conf) ==
    IF conf.incluster
    THEN [status |-> "returned", client |-> "ready", tried |-> <<"incluster">>]
    ELSE IF conf.kubeconfig
    THEN [status |-> "returned", client |-> "ready",
          tried |-> <<"incluster", "kubeconfig">>]
    ELSE [status |-> "raised", client |-> "none",
          tried |-> <<"incluster", "kubeconfig">>]

\* a process is started: its memory is new, its environment is what it is
Launch ==
    /\ pc = "idle"
    /\ startup.phase # "constructing"
    /\ startup.launches < MaxLaunches
    /\ config' \in Configs
    /\ \E entry \in Entries :
          startup' = [entry |-> entry, phase |-> "constructing", at |-> 1,
                      clients |-> [c \in Clients |-> "none"], tried |-> <<>>,
                      launches |-> startup.launches + 1, commands |-> 0]
    /\ cache' = [c \in Clients |-> <<>>]
    /\ ret' = NoRet
    /\ lastCall' = NoCall
    /\ UNCHANGED <<now, podNamespace, namespace, option, op, pc, task, idx, got,
                   live, results, ncalls, idLog, current_agent, reply, cleared,
                   trip, validation, issues_file, appended,
                   scanned, loop>>

\* the entry point constructs its next client.  An exception leaves cli()
\* and ends the process; interactive_mode catches it and goes on without an
\* agent system (standalone.py lines 76-82)
Construct ==
    /\ startup.phase = "constructing"
    /\ LET c == BuildOrder(startup.entry)[startup.at]
           made == K8sClientInit(config)
           last == startup.at = Len(BuildOrder(startup.entry))
       IN  startup' =
              IF made.status = "raised"
              THEN [startup EXCEPT
                       !.tried = made.tried,
                       !.clients = [x \in Clients |-> "none"],
                       !.phase = IF startup.entry = "cli" THEN "failed"
                                 ELSE "interactive"]
              ELSE [startup EXCEPT
                       !.tried = made.tried,
                       !.clients[c] = made.client,
                       !.at = IF last THEN 0 ELSE startup.at + 1,
                       !.phase = IF ~last THEN "constructing"
                                 ELSE IF startup.entry = "cli" THEN "running"
                                 ELSE "interactive"]
    /\ UNCHANGED <<now, podNamespace, namespace, option, cache, op, pc, task,
                   idx, got, live, results, ret, lastCall, ncalls, idLog,
                   current_agent, reply, cleared, trip, validation, issues_file,
                   appended, config,
                   scanned, loop>>

\* a command of cli() runs: the group callback has returned
CliGetCall ==
    /\ startup.phase = "running"
    /\ GetCall

\* the loop of interactive_mode answers a command: it prints, and touches
\* no client (standalone.py lines 84-111)
InteractiveCommand ==
    /\ startup.phase = "interactive"
    /\ startup.commands < MaxCalls
    /\ startup' = [startup EXCEPT !.commands = @ + 1]
    /\ UNCHANGED <<now, podNamespace, namespace, option, cache, op, pc, task,
                   idx, got, live, results, ret, lastCall, ncalls, idLog,
                   current_agent, reply, cleared, trip, validation, issues_file,
                   appended, config,
                   scanned, loop>>

NextStart ==
    \/ Launch
    \/ Construct
    \/ CliGetCall
    \/ InteractiveCommand
    \/ ClientCall
    \/ LiveReadOk
    \/ LiveReadFail

SpecStart == InitRouter /\ [][NextStart]_vars

-----------------------------------------------------------------------------
(* The pod and deployment rules by themselves: what _scan_pods and         *)
(* _scan_deployments make of the records get_pods and get_deployments      *)
(* gave them, discovery.py lines 59-109 and 125-150.                       *)

\* the phases of a pod and the other statuses the rule names, with one it
\* does not name
PodStatuses ==
    {"Running", "Succeeded", "Pending", "Failed", "CrashLoopBackOff", "Error",
     "Unknown"}

\* restart counts below, at and above the limit
RestartCounts == {0, RestartLimit, RestartLimit + 1}

\* the pods of a list: the i-th is named after its place
PodRecords(i) ==
    [name : {"web-" \o ToString(i)}, namespace : {"default"},
     status : PodStatuses, ready : BOOLEAN, restarts : RestartCounts,
     node : {"node-1"}, labels : {[x \in {"app"} |-> "web"]}]

\* the deployments of a list: replicas, ready and available replicas in
\* every order
DeploymentRecords(i) ==
    [name : {"api-" \o ToString(i)}, namespace : {"default"},
     replicas : {1, 3}, ready : {0, 1, 3}, available : {0, 1, 3}]

\* the lists of up to MaxRecords records
ListsOf(Records(_)) ==
    UNION {{s \in [1..n -> UNION {Records(i) : i \in 1..n}] :
              \A i \in 1..n : s[i] \in Records(i)} : n \in 0..MaxRecords}

\* _scan_pods has read the pods and goes through them
ScanPodsRun ==
    /\ scanned.rule = None
    /\ \E pods \in ListsOf(PodRecords) :
          scanned' = [rule |-> "_scan_pods", records |-> pods,
                      status |-> ScanPods(pods).status,
                      issues |-> ScanPods(pods).issues]
    /\ UNCHANGED <<now, podNamespace, namespace, option, cache, op, pc, task,
                   idx, got, live, results, ret, lastCall, ncalls, idLog,
                   current_agent, reply, cleared, trip, validation, issues_file,
                   appended, config, startup, loop>>

\* _scan_deployments has read the deployments and goes through them
ScanDeploymentsRun ==
    /\ scanned.rule = None
    /\ \E deployments \in ListsOf(DeploymentRecords) :
          scanned' = [rule |-> "_scan_deployments", records |-> deployments,
                      status |-> ScanDeployments(deployments).status,
                      issues |-> ScanDeployments(deployments).issues]
    /\ UNCHANGED <<now, podNamespace, namespace, option, cache, op, pc, task,
                   idx, got, live, results, ret, lastCall, ncalls, idLog,
                   current_agent, reply, cleared, trip, validation, issues_file,
                   appended, config, startup, loop>>

NextRules ==
    \/ ScanPodsRun
    \/ ScanDeploymentsRun

SpecRules == InitRouter /\ [][NextRules]_vars

-----------------------------------------------------------------------------
(* The event rule by itself: what _scan_events makes of the events that    *)
(* get_events gave it, discovery.py lines 166-204.  get_events hands on    *)
(* the items of the API's list in the order the API gave them              *)
(* (k8s_client.py lines 86-103).                                           *)

\* the involved objects of the events: two kinds, and one name under both
EventObjects ==
    {[kind |-> "Pod", name |-> "web-42"], [kind |-> "Pod", name |-> "api"],
     [kind |-> "Deployment", name |-> "api"]}

\* event.last_timestamp: unset, exactly and just under RecentWindow old, new
EventTimes ==
    {<<>>, <<now - RecentWindow>>, <<now - RecentWindow + 1>>, <<now>>}

\* n copies of a character
RECURSIVE Repeat(_, _)
Repeat(c, n) ==
    IF n = 0 THEN ""
    ELSE IF n % 2 = 1 THEN c \o Repeat(c, n - 1)
    ELSE LET half == Repeat(c, n \div 2) IN half \o half

\* event.message: short, of MaxMessage characters, and longer
EventMessages ==
    {"Back-off restarting failed container", Repeat("m", MaxMessage),
     Repeat("m", MaxMessage + 1)}

\* what a repeated event says at each of its times
MessageAt(timestamp) ==
    IF timestamp = <<>> THEN "seen (no time)"
    ELSE "seen " \o ToString(now - timestamp[1]) \o "s ago"

\* the events of a list: events of every object at every time, and events
\* of one object with every reason, type and message; a reason, a type or a
\* message the API left out is None
EventRecords ==
    {[name |-> "evt", namespace |-> "default",
      type |-> "Warning", reason |-> "BackOff", message |-> MessageAt(timestamp),
      object_kind |-> o.kind, object_name |-> o.name, timestamp |-> timestamp] :
        o \in EventObjects, timestamp \in EventTimes}
    \cup
    {[name |-> "evt", namespace |-> "default",
      type |-> type, reason |-> reason, message |-> message,
      object_kind |-> "Pod", object_name |-> "web-42", timestamp |-> <<now>>] :
        type \in {"Warning", None},
        reason \in {"BackOff", "FailedMount", "SyncError"},
        message \in EventMessages}
    \cup
    {[name |-> "evt", namespace |-> "default",
      type |-> "Warning", reason |-> r.reason, message |-> r.message,
      object_kind |-> "Pod", object_name |-> "web-42", timestamp |-> <<now>>] :
        r \in {[reason |-> None, message |-> "Readiness probe failed"],
               [reason |-> "Unhealthy", message |-> None]}}

\* _scan_events has read the events and goes through them
ScanEventsRun ==
    /\ scanned.rule = None
    /\ \E events \in UNION {[1..n -> EventRecords] : n \in 0..MaxRecords} :
          scanned' = [rule |-> "_scan_events", records |-> events,
                      status |-> ScanEvents(events).status,
                      issues |-> ScanEvents(events).issues]
    /\ UNCHANGED <<now, podNamespace, namespace, option, cache, op, pc, task,
                   idx, got, live, results, ret, lastCall, ncalls, idLog,
                   current_agent, reply, cleared, trip, validation, issues_file,
                   appended, config, startup, loop>>

NextEvents == ScanEventsRun

SpecEvents == InitRouter /\ [][NextEvents]_vars

-----------------------------------------------------------------------------
(* The scan command, src/src/main.py lines 37-101: run_scan is a loop of   *)
(* cycles.  A cycle awaits discovery.scan_all, prints what it found and    *)
(* hands every issue to storage.append_issue, which returns nothing and    *)
(* raises nothing (storage.py lines 15-42); what the appends do to the     *)
(* file is the Storage section's matter, here they are counted.            *)

\* the values of --interval: the default and another
Intervals == {2, 10}

\* where a KeyboardInterrupt leaves the loop: caught at line 92, or passing
\* through run_scan when it arrives outside the try or as a cancellation
Interrupts == {"interrupt caught", "interrupt passed on"}

\* the two awaits of asyncio.sleep(interval): line 90 and line 99
Sleeps == {"sleep", "sleep after error"}

\* the operator runs the scan command: the first cycle begins
ScanCommand ==
    /\ loop.at = "off"
    /\ pc = "idle"
    /\ \E continuous \in BOOLEAN, interval \in Intervals :
          loop' = [NoLoop EXCEPT !.at = "cycle", !.continuous = continuous,
                                 !.interval = interval]
    /\ UNCHANGED <<now, podNamespace, namespace, option, cache, op, pc, task,
                   idx, got, live, results, ret, lastCall, ncalls, idLog,
                   current_agent, reply, cleared, trip, validation, issues_file,
                   appended, config, startup, scanned>>

\* line 48: issues = await discovery.scan_all(namespace), up to the await
\* of gather
LoopScanAll ==
    /\ loop.at = "cycle"
    /\ pc = "idle"
    /\ loop' = [loop EXCEPT !.at = "scan_all"]
    /\ op' = [name |-> "scan_all", client |-> "cli", kind |-> None,
              namespace |-> option]
    /\ results' = [r \in RuleNames |->
                      [status |-> "pending", ns |-> ScanNamespace(option),
                       issues |-> <<>>]]
    /\ pc' = "gather"
    /\ task' = None
    /\ idx' = 0
    /\ got' = <<>>
    /\ ret' = NoRet
    /\ lastCall' = NoCall
    /\ UNCHANGED <<now, podNamespace, namespace, option, cache, live, ncalls,
                   idLog, current_agent, reply, cleared, trip, validation,
                   issues_file, appended, config, startup, scanned>>

\* a cycle that stops at the first error, whatever the mode
AfterCycle_StopsOnError(outcome) ==
    IF loop.continuous /\ outcome = "completed"
    THEN [loop EXCEPT !.at = "sleep", !.slept = loop.interval,
                      !.last = outcome]
    ELSE [loop EXCEPT !.at = "ended", !.ended = "break", !.last = outcome]

\* the end of a cycle, lines 87-90 and 95-99: break when not continuous,
\* else sleep for the interval
AfterCycle(outcome) ==
    IF loop.continuous
    THEN [loop EXCEPT !.at = IF outcome = "completed" THEN "sleep"
                             ELSE "sleep after error",
                      !.slept = loop.interval, !.last = outcome]
    ELSE [loop EXCEPT !.at = "ended", !.ended = "break", !.last = outcome]

\* lines 50-90: scan_all returned, the cycle prints and stores the issues
CycleCompleted ==
    /\ loop.at = "scan_all"
    /\ pc = "idle"
    /\ loop' = [AfterCycle("completed") EXCEPT !.stored = Len(ret.value)]
    /\ UNCHANGED <<now, podNamespace, namespace, option, cache, op, pc, task,
                   idx, got, live, results, ret, lastCall, ncalls, idLog,
                   current_agent, reply, cleared, trip, validation, issues_file,
                   appended, config, startup, scanned>>

\* lines 95-99: something in the try raised an Exception, before the scan
\* or after it; the handler prints it
CycleRaised ==
    /\ loop.at \in {"cycle", "scan_all"}
    /\ pc = "idle"
    /\ loop' = AfterCycle("raised")
    /\ UNCHANGED <<now, podNamespace, namespace, option, cache, op, pc, task,
                   idx, got, live, results, ret, lastCall, ncalls, idLog,
                   current_agent, reply, cleared, trip, validation, issues_file,
                   appended, config, startup, scanned>>

\* asyncio.sleep(interval) is over: while True begins the next cycle
Wake ==
    /\ loop.at \in Sleeps
    /\ loop' = [loop EXCEPT !.at = "cycle"]
    /\ UNCHANGED <<now, podNamespace, namespace, option, cache, op, pc, task,
                   idx, got, live, results, ret, lastCall, ncalls, idLog,
                   current_agent, reply, cleared, trip, validation, issues_file,
                   appended, config, startup, scanned>>

\* the operator interrupts: inside the try a KeyboardInterrupt is caught and
\* breaks (lines 92-94), a cancellation of the task (asyncio.run's SIGINT
\* handler) or an interrupt during the handler's sleep leaves run_scan
Interrupt ==
    /\ loop.at \in {"cycle", "scan_all"} \cup Sleeps
    /\ \E how \in Interrupts :
          /\ loop.at = "sleep after error" => how = "interrupt passed on"
          /\ loop' = [loop EXCEPT !.at = "ended", !.ended = how]
    /\ op' = NoOp
    /\ pc' = "idle"
    /\ task' = None
    /\ idx' = 0
    /\ got' = <<>>
    /\ live' = NoLive
    /\ UNCHANGED <<now, podNamespace, namespace, option, cache, results, ret,
                   lastCall, ncalls, idLog, current_agent, reply, cleared, trip,
                   validation, issues_file, appended, config, startup, scanned>>

\* the steps of the program itself
LoopRuns ==
    \/ LoopScanAll
    \/ \E r \in RuleNames : RuleStart(r)
    \/ ClientCall
    \/ LiveReadOk
    \/ LiveReadFail
    \/ ScanAllReturn
    \/ CycleCompleted
    \/ CycleRaised
    \/ Wake

NextLoop ==
    \/ ScanCommand
    \/ LoopRuns
    \/ Interrupt

\* the event loop runs the task whenever it can run: a sleep ends, the next
\* cycle calls scan_all, and the code after scan_all runs to the end of the
\* cycle.  Nothing makes a list call answer: the code sets no timeout.
SpecLoop ==
    /\ InitRouter /\ [][NextLoop]_vars
    /\ WF_vars(Wake) /\ WF_vars(LoopScanAll) /\ WF_vars(CycleCompleted)

-----------------------------------------------------------------------------
(* Properties.                                                             *)

\* number of times x occurs in the sequence s
Occurrences(x, s) == Cardinality({i \in 1..Len(s) : s[i] = x})

\* C1: a get_pods / get_deployments / get_events call is served from the
\* cache, without a live read, if and only if the cache holds an entry for
\* its key that is younger than the TTL, whatever the stored payload is.
C1_ServedFromCacheIffFresh ==
    lastCall.client # None =>
        ((lastCall.served = "cache") <=> lastCall.valid)

\* C2: whatever the failure of a live read is, the call returns an empty
\* list and no exception reaches the caller.
C2_FailureGivesEmptyList ==
    lastCall.failure # None =>
        /\ lastCall.outcome = "returned"
        /\ lastCall.size = 0

\* C3: scan_all returns normally whichever rules raised, and its result
\* holds every issue of every rule that returned, as often as the rules
\* returned it, and nothing else.
C3_FaultIsolation ==
    ret.name = "scan_all" =>
        /\ ret.status = "returned"
        /\ \A r \in RuleNames :
              results[r].status = "returned" =>
                 \A i \in 1..Len(results[r].issues) :
                    LET x == results[r].issues[i]
                        from(q) == IF results[q].status = "returned"
                                   THEN Occurrences(x, results[q].issues)
                                   ELSE 0
                    IN  Occurrences(x, ret.value) =
                           from(Rules[1]) + from(Rules[2]) + from(Rules[3])
                           + from(Rules[4]) + from(Rules[5]) + from(Rules[6])
        /\ \A i \in 1..Len(ret.value) :
              \E r \in RuleNames :
                 /\ results[r].status = "returned"
                 /\ Occurrences(ret.value[i], results[r].issues) > 0

\* the event rule raised, the pod and deployment rules' issues are returned
C3_Witness ==
    /\ ret.name = "scan_all"
    /\ results["_scan_events"].status = "raised"
    /\ results["_scan_pods"].issues # <<>>
    /\ results["_scan_deployments"].issues # <<>>
    /\ Len(ret.value) >= Len(results["_scan_pods"].issues)
                         + Len(results["_scan_deployments"].issues)

\* C4: scan_all starts its six rules with one and the same scope, and when
\* it has returned every rule has returned or raised and none is running.
C4_AllRulesJoined ==
    /\ op.name = "scan_all" =>
          \A r, q \in RuleNames :
             /\ results[r].status # "idle"
             /\ results[r].ns = results[q].ns
    /\ ret.name = "scan_all" =>
          /\ task = None
          /\ \A r \in RuleNames : results[r].status \in {"returned", "raised"}

\* a scan has returned after rules that returned and a rule that raised
C4_Witness ==
    /\ ret.name = "scan_all"
    /\ pc = "idle"
    /\ \E r \in RuleNames : results[r].status = "raised"
    /\ results["_scan_policy_violations"].status = "returned"

\* C5: while one rule of a scan is in its live read, a rule that has not
\* started yet can start.
C5_OthersRunDuringLiveRead ==
    (/\ op.name = "scan_all"
     /\ pc = "live"
     /\ \E q \in RuleNames : results[q].status = "pending")
    => \E q \in RuleNames : ENABLED RuleStart(q)

\* C6: a read caused by scan_all(None), scan_all("") or scan_all("all") is
\* cluster-wide: it is made with no namespace, not with the client's
\* configured default.
C6_SynonymsAreClusterWide ==
    (lastCall.origin = "scan_all" /\ lastCall.arg \in {None, "", "all"})
    => /\ lastCall.ns = None
       /\ lastCall.ns # namespace[lastCall.client]

\* C7: every client read caused by scan_all or get_resource_health with an
\* explicit namespace uses exactly that namespace, for the cache key and for
\* the live read.
C7_ExplicitNamespaceHonoured ==
    (/\ lastCall.origin \in {"scan_all", "get_resource_health"}
     /\ lastCall.arg \notin {None, "", "all"})
    => /\ lastCall.ns = lastCall.arg
       /\ lastCall.key = lastCall.kind \o "-" \o lastCall.arg
       /\ pc = "live" => live.ns = lastCall.arg

\* a live read for "ns1" while both defaults are other namespaces
C7_Witness ==
    /\ lastCall.origin = "scan_all"
    /\ lastCall.arg = "ns1"
    /\ pc = "live"
    /\ live.ns = "ns1"
    /\ namespace["cli"] # "ns1"
    /\ podNamespace # "ns1"
    /\ namespace["cli"] # podNamespace

\* C8: two generate_issue_id calls with the same resource name and issue
\* type give the same id, whenever they are made.
C8_SameInputsSameId ==
    \A i, j \in 1..Len(idLog) :
        (/\ idLog[i].resource_name = idLog[j].resource_name
         /\ idLog[i].issue_type = idLog[j].issue_type)
        => idLog[i].id = idLog[j].id

\* C9: two generate_issue_id calls with the same resource name and
\* different issue types give different ids.
C9_DifferentTypesDifferentIds ==
    \A i, j \in 1..Len(idLog) :
        (/\ idLog[i].resource_name = idLog[j].resource_name
         /\ idLog[i].issue_type # idLog[j].issue_type)
        => idLog[i].id # idLog[j].id

\* ids of one resource for two types, one type a prefix of the other, asked
\* for at different times
C9_Witness ==
    \E i, j \in 1..Len(idLog) :
        /\ idLog[i].resource_name = idLog[j].resource_name
        /\ idLog[i].issue_type = "event"
        /\ idLog[j].issue_type = "event-15"
        /\ idLog[i].at = 15
        /\ idLog[j].at = 0

\* C10: a read by an agent of a key for which another agent's client holds
\* a fresh, non-empty entry is served from the cache.
C10_AgentsShareOneCache ==
    (lastCall.client \in Agents /\ lastCall.elsewhere)
    => lastCall.served = "cache"

\* the name in a command "@name" or "@name rest": the text between the "@"
\* and the first space
Mentioned(command) ==
    IF Contains(command, " ")
    THEN SubSeq(command, 2, FirstSpace(command) - 1)
    ELSE SubSeq(command, 2, Len(command))

\* the last call of AgentSystem was execute_command with an "@" command
AtCommand ==
    /\ reply.route \notin {None, "set_current_agent"}
    /\ StartsWith(reply.command, "@")

\* the last call was execute_command with a command for the current agent
PlainCommand ==
    /\ reply.route \notin {None, "set_current_agent"}
    /\ ~StartsWith(reply.command, "@")
    /\ ~StartsWith(reply.command, "/")
    /\ ~StartsWith(reply.command, "!")

\* C11: current_agent is always one of the six agents, and it is
\* troubleshooter as long as AgentSystem has not been called.
C11_CurrentAgentIsKnown ==
    /\ current_agent \in {"troubleshooter", "discovery", "logs", "resource",
                          "network", "security"}
    /\ ncalls = 0 => current_agent = "troubleshooter"

\* set_current_agent and execute_command were called with unknown names
\* after another agent had been selected
C11_Witness ==
    /\ ncalls = 2
    /\ reply.command \in {"nobody", "@nobody"}
    /\ reply.status = "returned"
    /\ reply.was # "troubleshooter"
    /\ current_agent = reply.was

\* C12: after "@name" with nothing behind the name, current_agent is name
\* when name is one of the six agents; otherwise the call has returned a
\* message saying that the agent is unknown and current_agent is as before.
C12_SwitchOrUnknown ==
    (AtCommand /\ ~Contains(reply.command, " ")) =>
        /\ reply.status = "returned"
        /\ IF Mentioned(reply.command) \in Agents
           THEN current_agent = Mentioned(reply.command)
           ELSE /\ reply.text = "Unknown agent: " \o Mentioned(reply.command)
                /\ current_agent = reply.was

\* a switch to another agent than the selected one has been made
C12_Witness ==
    /\ reply.command = "@security"
    /\ reply.was = "logs"
    /\ current_agent = "security"
    /\ reply.status = "returned"

\* C13: "@name rest" with a known name is executed by the agent name, with
\* rest as its query, and current_agent is what it was before the command.
C13_DirectKeepsCurrent ==
    (/\ AtCommand
     /\ Contains(reply.command, " ")
     /\ Mentioned(reply.command) \in Agents)
    => /\ reply.route = "direct"
       /\ reply.by = Mentioned(reply.command)
       /\ current_agent = reply.was
       /\ current_agent = reply.selected

\* the discovery agent has answered a direct command while logs is selected
C13_Witness ==
    /\ reply.command = "@discovery pods"
    /\ reply.status = "returned"
    /\ reply.by = "discovery"
    /\ reply.was = "logs"
    /\ current_agent = "logs"

\* C14: a command that starts with none of "@", "/" and "!" is executed by
\* the agent of the last successful switch, troubleshooter when there was
\* none, and that agent is still the current one afterwards.
C14_PlainGoesToSelected ==
    PlainCommand =>
        /\ reply.route = "current"
        /\ reply.by = reply.selected
        /\ current_agent = reply.selected

\* after "@logs" (or the sidebar) selected logs, a plain command is
\* answered by logs
C14_Witness ==
    /\ ncalls = 2
    /\ reply.command = "get"
    /\ reply.by = "logs"
    /\ reply.selected = "logs"
    /\ reply.status = "returned"
    /\ reply.text = "Please specify a pod name. Example: get web-app-123"

\* C15: for a command "!raw", execute_command returns; when the validator
\* denies raw, the response is the validator's denial and not raw offered
\* as a command to run.
C15_RawIsValidated ==
    (reply.route # None /\ StartsWith(reply.command, "!")) =>
        LET raw == SubSeq(reply.command, 2, Len(reply.command))
            verdict == validate_kubectl_command(raw)
        IN  /\ reply.status = "returned"
            /\ ~verdict.allowed =>
                  /\ reply.text = verdict.message
                  /\ ~StartsWith(reply.text, "Run: ")

\* C16: a command that the router or an agent answers without reading the
\* cluster (unknown agent, unknown "/" command, malformed or unrecognised
\* sub-command of any of the six agents) returns a string and raises nothing.
C16_UserInputNeverRaises ==
    (reply.route \notin {None, "set_current_agent"} /\ reply.read = None)
    => /\ reply.status = "returned"
       /\ reply.text # None

\* C17: get_pod_logs never raises: a failed log read gives a textual error
\* message, whatever the failure is, and a successful one gives the log text.
C17_PodLogsNeverRaises ==
    ret.name = "get_pod_logs" =>
        /\ ret.status = "returned"
        /\ lastCall.failure # None => StartsWith(ret.value, "Error getting logs")
        /\ lastCall.failure = None => ret.value \in LogTexts

\* C18: a get_pod_logs call always goes to the live log read, and no step of
\* it, neither its start nor the success or failure of its read, changes the
\* cache of any client.
C18_PodLogsBypassCache ==
    [][/\ op'.name = "get_pod_logs" => pc' = "logs" /\ live'.kind = "logs"
       /\ (op.name = "get_pod_logs" \/ op'.name = "get_pod_logs")
             => cache' = cache]_vars

\* get_pod_logs has failed on a client whose cache holds an entry
C18_Witness ==
    /\ ret.name = "get_pod_logs"
    /\ lastCall.failure = "ApiException"
    /\ lastCall.served = "live"
    /\ DOMAIN cache[lastCall.client] # {}

\* C19: right after clear_cache the client's cache has no entry, and the
\* next get_pods / get_deployments / get_events call of that client is a
\* live read, whatever the cache held before.
C19_ClearCacheEmptiesAll ==
    cleared.client # None =>
        /\ ret.name = "clear_cache" => DOMAIN cache[cleared.client] = {}
        /\ (/\ ncalls = cleared.calls + 1
            /\ lastCall.origin = "get"
            /\ lastCall.client = cleared.client)
           => /\ lastCall.served = "live"
              /\ ~lastCall.valid

\* the call after clear_cache reads live a key whose entry was fresh and
\* non-empty when the cache was cleared, at the same instant
C19_Witness ==
    /\ cleared.client # None
    /\ ncalls = cleared.calls + 1
    /\ lastCall.client = cleared.client
    /\ lastCall.key \in cleared.fresh
    /\ lastCall.served = "live"
    /\ now = 0

\* C20: a step of a get_pods / get_deployments / get_events call creates or
\* overwrites at most the entry of the call's own key in the caller's
\* cache; every other entry of every client keeps its data and timestamp.
C20_EntriesIndependent ==
    [][op.name = "get" =>
          \A c \in Clients :
             /\ DOMAIN cache[c] \subseteq DOMAIN cache'[c]
             /\ \A k \in DOMAIN cache'[c] :
                   (c # op.client \/ k # live.key)
                   => k \in DOMAIN cache[c] /\ cache'[c][k] = cache[c][k]]_vars

\* a client holds two entries fetched at different times, the older one
\* untouched by the read that stored the younger one
C20_Witness ==
    /\ ret.name = "get"
    /\ lastCall.key = "events-ns1"
    /\ lastCall.served = "live"
    /\ lastCall.outcome = "returned"
    /\ "pods-ns1" \in DOMAIN cache["cli"]
    /\ "events-ns1" \in DOMAIN cache["cli"]
    /\ cache["cli"]["pods-ns1"].timestamp = 0
    /\ cache["cli"]["events-ns1"].timestamp = 15

\* what get_resource_health has read when it ends: the pods and the
\* deployments of its first two reads, an empty list for a read that failed
HealthSeen ==
    [pods |-> got[1], deployments |-> got[2]]

AllHealthy(seen) ==
    /\ \A i \in 1..Len(seen.pods) :
          seen.pods[i].status = "Running" /\ seen.pods[i].ready
    /\ \A i \in 1..Len(seen.deployments) :
          seen.deployments[i].ready = seen.deployments[i].replicas
    /\ Len(seen.pods) > 0

C22_RoundTrip ==
    /\ trip.step \in {"dict", "restored"}
       => trip.data.priority = Lower(trip.issue.priority)
          /\ trip.data.priority \in Priority
    /\ trip.step = "restored"
       => \A field \in {"id", "title", "description", "priority",
                        "resource_type", "resource_name", "namespace",
                        "timestamp"} :
             trip.restored[field] = trip.issue[field]

\* an issue with microseconds and an offset west of UTC, in no namespace,
\* has gone through to_dict and from_dict
C22_Witness ==
    /\ trip.step = "restored"
    /\ trip.issue.timestamp.microsecond = 7
    /\ trip.issue.timestamp.utcoffset = <<-480>>
    /\ trip.issue.namespace = None
    /\ trip.data.timestamp = "2024-05-01T23:59:59.000007-08:00"

\* the shell operators and the flags that the validator is to refuse
Operators == {";", "|", ">", "&"}
RefusedFlags == {"-o jsonpath", "--dry-run", "--overrides"}

\* C23: validate_kubectl_command returns (False, message), and does not
\* raise, for every command that contains one of ; | > & or one of the
\* flags -o jsonpath, --dry-run, --overrides, whatever its verb.
C23_OperatorsAndFlagsDenied ==
    validation.status # None
    => /\ validation.status = "returned"
       /\ (\E x \in Operators \cup RefusedFlags : Contains(validation.command, x))
          => ~validation.allowed

\* every issue handed to append_issue, by the runs before and by this one
AllAppended ==
    [i \in 1..appended.before |-> EarlierIssue(i)] \o appended.issues

\* C24: after any sequence of n append_issue calls the store holds the most
\* recent min(n, 1000) appended issues in append order: never more than
\* 1000, and an earlier issue is missing only because of that bound.
C24_StoreHoldsMostRecent ==
    appended.storage = "open"
    => /\ Len(load_issues(issues_file, "read")) <= KeepLast
       /\ load_issues(issues_file, "read") = LastN(AllAppended, KeepLast)

\* C25: K8sClient.__init__ tries the in-cluster configuration first and the
\* kubeconfig second, and only when the first did not load; when neither
\* loads it raises and leaves no client, and the reads of the process run
\* on fully constructed clients only.
C25_NoHalfInitializedClient ==
    /\ startup.tried \in {<<>>, <<"incluster">>, <<"incluster", "kubeconfig">>}
    /\ (startup.tried = <<"incluster", "kubeconfig">> /\ startup.launches > 0)
       => ~config.incluster
    /\ (startup.tried # <<>> /\ ~config.incluster /\ ~config.kubeconfig)
       => /\ startup.phase \in {"failed", "interactive"}
          /\ \A c \in Clients : startup.clients[c] = "none"
    /\ \A c \in Clients : startup.clients[c] \in {"none", "ready"}
    /\ op.client # None => startup.clients[op.client] = "ready"
    /\ lastCall.client # None => startup.clients[lastCall.client] = "ready"

\* a process whose environment offers no configuration has failed to start,
\* after trying both loaders in order
C25_Witness ==
    /\ startup.launches > 0
    /\ ~config.incluster /\ ~config.kubeconfig
    /\ startup.phase = "failed"
    /\ startup.tried = <<"incluster", "kubeconfig">>

\* the lists that scan_all's fan-in takes: those of the rules that returned
ListOf(r) == IF results[r].status = "returned" THEN results[r].issues ELSE <<>>

\* how many issues of a list have the id
WithId(id, issues) == Cardinality({i \in 1..Len(issues) : issues[i].id = id})

\* C26: the result of scan_all is the union, as multisets, of the lists of
\* the rules that returned: its length is the sum of their lengths, and an
\* id is in it as many times as it is in all the lists together, so issues
\* of different rules are neither merged nor dropped.
C26_ResultIsSumOfLists ==
    ret.name = "scan_all" =>
        /\ Len(ret.value) =
              Len(ListOf(Rules[1])) + Len(ListOf(Rules[2])) + Len(ListOf(Rules[3]))
              + Len(ListOf(Rules[4])) + Len(ListOf(Rules[5])) + Len(ListOf(Rules[6]))
        /\ \A i \in 1..Len(ret.value) :
              LET id == ret.value[i].id
              IN  WithId(id, ret.value) =
                     WithId(id, ListOf(Rules[1])) + WithId(id, ListOf(Rules[2]))
                     + WithId(id, ListOf(Rules[3])) + WithId(id, ListOf(Rules[4]))
                     + WithId(id, ListOf(Rules[5])) + WithId(id, ListOf(Rules[6]))

\* a scan has returned the issues that four rules found for the same pod
C26_Witness ==
    /\ ret.name = "scan_all"
    /\ Cardinality({r \in RuleNames :
                      \E i \in 1..Len(ListOf(r)) :
                         ListOf(r)[i].resource_name = "web-42"}) >= 4
    /\ Len(ret.value) >= 5

\* the issues of one type that the rule run by itself gave for a resource
Found(name, type) ==
    SelectSeq(scanned.issues, LAMBDA x : x.id = generate_issue_id(name, type))

\* all the issues it gave for a resource
FoundFor(name) == SelectSeq(scanned.issues, LAMBDA x : x.resource_name = name)

\* C27: for every pod _scan_pods gives exactly one status issue when the
\* status is neither Running nor Succeeded and none otherwise; the issue is
\* critical for Failed, CrashLoopBackOff and Error and a warning for every
\* other status.
C27_PodStatusRule ==
    scanned.rule = "_scan_pods" =>
        \A i \in 1..Len(scanned.records) :
            LET pod == scanned.records[i]
                found == Found(pod.name, "status")
            IN  IF pod.status \in {"Running", "Succeeded"} THEN found = <<>>
                ELSE /\ Len(found) = 1
                     /\ found[1].resource_name = pod.name
                     /\ found[1].priority =
                           IF pod.status \in {"Failed", "CrashLoopBackOff", "Error"}
                           THEN "critical" ELSE "warning"

\* a Pending pod has a warning and a CrashLoopBackOff pod a critical issue
C27_Witness ==
    /\ scanned.rule = "_scan_pods"
    /\ Len(scanned.records) = 2
    /\ scanned.records[1].status = "Pending"
    /\ scanned.records[2].status = "CrashLoopBackOff"
    /\ Found("web-1", "status")[1].priority = "warning"
    /\ Found("web-2", "status")[1].priority = "critical"

\* C28: for every pod _scan_pods gives exactly one warning for a high
\* restart count when the pod restarted more than 5 times and none when it
\* restarted 5 times or fewer, whatever the pod's status and readiness.
C28_PodRestartRule ==
    scanned.rule = "_scan_pods" =>
        \A i \in 1..Len(scanned.records) :
            LET pod == scanned.records[i]
                found == Found(pod.name, "restarts")
            IN  IF pod.restarts > 5
                THEN /\ Len(found) = 1
                     /\ found[1].resource_name = pod.name
                     /\ found[1].priority = "warning"
                ELSE found = <<>>

\* a ready Succeeded pod with 6 restarts is reported, a pod with 5 is not
C28_Witness ==
    /\ scanned.rule = "_scan_pods"
    /\ Len(scanned.records) = 2
    /\ scanned.records[1].restarts = 6
    /\ scanned.records[1].status = "Succeeded" /\ scanned.records[1].ready
    /\ scanned.records[2].restarts = 5
    /\ Len(Found("web-1", "restarts")) = 1
    /\ Found("web-2", "restarts") = <<>>

\* C29: for every pod _scan_pods gives exactly one not-ready warning when
\* the pod is Running and not ready, and none in every other case.
C29_PodReadinessRule ==
    scanned.rule = "_scan_pods" =>
        \A i \in 1..Len(scanned.records) :
            LET pod == scanned.records[i]
                found == Found(pod.name, "readiness")
            IN  IF pod.status = "Running" /\ ~pod.ready
                THEN /\ Len(found) = 1
                     /\ found[1].resource_name = pod.name
                     /\ found[1].priority = "warning"
                ELSE found = <<>>

\* a Running pod that is not ready is reported, a Pending pod that is not
\* ready has no readiness issue
C29_Witness ==
    /\ scanned.rule = "_scan_pods"
    /\ Len(scanned.records) = 2
    /\ scanned.records[1].status = "Running" /\ ~scanned.records[1].ready
    /\ scanned.records[2].status = "Pending" /\ ~scanned.records[2].ready
    /\ Len(Found("web-1", "readiness")) = 1
    /\ Found("web-2", "readiness") = <<>>

\* C30: for every deployment _scan_deployments gives exactly one warning
\* for a replica mismatch when replicas differs from ready and none when
\* they are equal; when they differ and available equals replicas, that
\* warning is the deployment's only issue.
C30_ReplicaMismatchRule ==
    scanned.rule = "_scan_deployments" =>
        \A i \in 1..Len(scanned.records) :
            LET deployment == scanned.records[i]
                found == Found(deployment.name, "replicas")
            IN  /\ IF deployment.replicas # deployment.ready
                   THEN /\ Len(found) = 1
                        /\ found[1].resource_name = deployment.name
                        /\ found[1].priority = "warning"
                   ELSE found = <<>>
                /\ (/\ deployment.replicas # deployment.ready
                    /\ deployment.available = deployment.replicas)
                   => FoundFor(deployment.name) = found

\* a deployment with more ready than wanted replicas, all of them
\* available, has the warning and nothing else
C30_Witness ==
    /\ scanned.rule = "_scan_deployments"
    /\ Len(scanned.records) >= 1
    /\ scanned.records[1].replicas = 1
    /\ scanned.records[1].ready = 3
    /\ scanned.records[1].available = 1
    /\ Len(FoundFor("api-1")) = 1
    /\ FoundFor("api-1")[1].priority = "warning"

\* C31: for every deployment _scan_deployments gives exactly one critical
\* unavailable issue when available is below replicas and none otherwise,
\* also when ready equals replicas.
C31_AvailabilityRule ==
    scanned.rule = "_scan_deployments" =>
        \A i \in 1..Len(scanned.records) :
            LET deployment == scanned.records[i]
                found == Found(deployment.name, "availability")
            IN  IF deployment.available < deployment.replicas
                THEN /\ Len(found) = 1
                     /\ found[1].resource_name = deployment.name
                     /\ found[1].priority = "critical"
                ELSE found = <<>>

\* a deployment with every replica ready and one of three available has
\* the critical issue and no other; one with more available than wanted
\* has none
C31_Witness ==
    /\ scanned.rule = "_scan_deployments"
    /\ Len(scanned.records) = 2
    /\ scanned.records[1].replicas = 3
    /\ scanned.records[1].ready = 3
    /\ scanned.records[1].available = 1
    /\ scanned.records[2].replicas = 1
    /\ scanned.records[2].available = 3
    /\ Len(FoundFor("api-1")) = 1
    /\ Found("api-1", "availability")[1].priority = "critical"
    /\ Found("api-2", "availability") = <<>>

\* the events of a list in the group of an event: the same object kind,
\* object name and reason
SameGroup(events, e) ==
    {events[i] : i \in {j \in 1..Len(events) :
                           /\ events[j].object_kind = e.object_kind
                           /\ events[j].object_name = e.object_name
                           /\ events[j].reason = e.reason}}

\* those of them that are younger than one hour
Young(group) ==
    {e \in group : e.timestamp # <<>> /\ now - e.timestamp[1] < 3600}

\* those of the young ones that no other is newer than
MostRecent(group) ==
    {e \in Young(group) :
        \A x \in Young(group) : x.timestamp[1] <= e.timestamp[1]}

\* the issues the event rule gave for the group of an event
FoundForGroup(e) ==
    SelectSeq(scanned.issues,
              LAMBDA x : x.title = Str(e.reason) \o " on " \o e.object_kind
                                      \o "/" \o e.object_name)

\* the event rule ran by itself and returned
EventsReturned == scanned.rule = "_scan_events" /\ scanned.status = "returned"

\* C32: the issue of every group of events is built from a most recent
\* event of the group inside the recency window, whatever the order of the
\* events in the list.
C32_IssueFromMostRecentEvent ==
    EventsReturned =>
        \A i \in 1..Len(scanned.records) :
            LET group == SameGroup(scanned.records, scanned.records[i])
                found == FoundForGroup(scanned.records[i])
            IN  \A k \in 1..Len(found) :
                    \E e \in MostRecent(group) : found[k] = EventIssue(e)

\* the events of a list that are younger than one hour, in their order
YoungOnly(events) ==
    SelectSeq(events,
              LAMBDA e : e.timestamp # <<>> /\ now - e.timestamp[1] < 3600)

\* the elements of a sequence
Elements(s) == {s[i] : i \in 1..Len(s)}

\* C33: the event rule gives at most one issue for a group, and one only
\* when the group has an event younger than one hour; events one hour old
\* or older, or with no timestamp, change neither the outcome of the rule
\* nor any issue.
C33_OnlyYoungEventsCount ==
    scanned.rule = "_scan_events" =>
        /\ \A i \in 1..Len(scanned.records) :
              LET group == SameGroup(scanned.records, scanned.records[i])
                  found == FoundForGroup(scanned.records[i])
              IN  /\ Len(found) <= 1
                  /\ Young(group) = {} => found = <<>>
                  /\ (Young(group) # {} /\ scanned.status = "returned")
                        => Len(found) = 1
        /\ scanned.status = ScanEvents(YoungOnly(scanned.records)).status
        /\ Elements(scanned.issues)
              = Elements(ScanEvents(YoungOnly(scanned.records)).issues)
        /\ Len(scanned.issues)
              = Len(ScanEvents(YoungOnly(scanned.records)).issues)

\* a group with an event exactly one hour old and one just under has one
\* issue, built from the younger
C33_Witness ==
    /\ EventsReturned
    /\ Len(scanned.records) = 2
    /\ scanned.records[1].timestamp = <<now - 3600>>
    /\ scanned.records[2].timestamp = <<now - 3599>>
    /\ scanned.records[1].object_name = scanned.records[2].object_name
    /\ scanned.records[1].object_kind = scanned.records[2].object_kind
    /\ scanned.records[1].reason = scanned.records[2].reason
    /\ Len(scanned.issues) = 1
    /\ scanned.issues[1].description = scanned.records[2].message

\* the event the rule selects for the group of an event: the first young
\* event of the group in the order of the list
Selected(e) ==
    LET events == scanned.records
        first == CHOOSE i \in 1..Len(events) :
                    /\ events[i] \in Young(SameGroup(events, e))
                    /\ \A j \in 1..(i - 1) :
                          events[j] \notin Young(SameGroup(events, e))
    IN  events[first]

\* the indices of the events whose group has an issue
Reported ==
    {i \in 1..Len(scanned.records) :
        Young(SameGroup(scanned.records, scanned.records[i])) # {}}

\* C34: the priority of an event issue is critical when the reason of the
\* selected event contains "Error" or "Failed", otherwise a warning when
\* its type is "Warning", otherwise info; the reason is tested first.
C34_EventPriority ==
    EventsReturned =>
        \A i \in Reported :
            LET e == Selected(scanned.records[i])
                found == FoundForGroup(scanned.records[i])
            IN  /\ Len(found) = 1
                /\ found[1].priority =
                      IF \/ \E k \in 1..(Len(e.reason) - 4) :
                               SubSeq(e.reason, k, k + 4) = "Error"
                         \/ \E k \in 1..(Len(e.reason) - 5) :
                               SubSeq(e.reason, k, k + 5) = "Failed"
                      THEN "critical"
                      ELSE IF e.type = "Warning" THEN "warning" ELSE "info"

\* a Warning event whose reason has "Failed" in it is critical, an event
\* with no type and a plain reason is info
C34_Witness ==
    /\ EventsReturned
    /\ Len(scanned.records) = 2
    /\ scanned.records[1].reason = "FailedMount"
    /\ scanned.records[1].type = "Warning"
    /\ scanned.records[2].reason = "BackOff"
    /\ scanned.records[2].type = None
    /\ Len(scanned.issues) = 2
    /\ scanned.issues[1].priority = "critical"
    /\ scanned.issues[2].priority = "info"

\* C35: the description of an event issue is never longer than 200
\* characters: a message of at most 200 characters is kept as it is, a
\* longer one is cut so that the result is exactly 200 characters long, its
\* last three the dots.
C35_DescriptionWithinLimit ==
    EventsReturned =>
        \A i \in Reported :
            LET message == Selected(scanned.records[i]).message
                found == FoundForGroup(scanned.records[i])
                description == found[1].description
            IN  /\ Len(found) = 1
                /\ Len(description) <= 200
                /\ Len(message) <= 200 => description = message
                /\ Len(message) > 200 =>
                      /\ Len(description) = 200
                      /\ SubSeq(description, 198, 200) = "..."
                      /\ SubSeq(description, 1, 197) = SubSeq(message, 1, 197)

\* a message of 201 characters is cut to 200, one of 200 is kept whole
C35_Witness ==
    /\ EventsReturned
    /\ Len(scanned.records) = 2
    /\ Len(scanned.records[1].message) = 201
    /\ Len(scanned.records[2].message) = 200
    /\ scanned.records[1].reason # scanned.records[2].reason
    /\ Len(scanned.issues) = 2
    /\ Len(scanned.issues[1].description) = 200
    /\ scanned.issues[1].description # scanned.records[1].message
    /\ scanned.issues[2].description = scanned.records[2].message

\* C39: two issues the event rule gives in one scan for different groups,
\* two reasons on one object among them, never have the same id.
C39_EventIdsDistinct ==
    EventsReturned =>
        \A i \in 1..Len(scanned.issues) : \A j \in 1..Len(scanned.issues) :
            i # j => scanned.issues[i].id # scanned.issues[j].id

\* C40: the pod rule never gives a pod both a status issue and a readiness
\* issue, gives it at most one issue of each of the three types, and so at
\* most two issues, whether the pod is Running or not.
C40_AtMostTwoIssuesPerPod ==
    scanned.rule = "_scan_pods" =>
        \A i \in 1..Len(scanned.records) :
            LET name == scanned.records[i].name
            IN  /\ Found(name, "status") = <<>> \/ Found(name, "readiness") = <<>>
                /\ Len(Found(name, "status")) <= 1
                /\ Len(Found(name, "restarts")) <= 1
                /\ Len(Found(name, "readiness")) <= 1
                /\ Len(FoundFor(name))
                      = Len(Found(name, "status")) + Len(Found(name, "restarts"))
                        + Len(Found(name, "readiness"))
                /\ Len(FoundFor(name)) <= 2

\* a Pending pod that is not ready and restarted 6 times has a status and a
\* restart issue, a Running one a restart and a readiness issue
C40_Witness ==
    /\ scanned.rule = "_scan_pods"
    /\ Len(scanned.records) = 2
    /\ scanned.records[1].status = "Pending" /\ ~scanned.records[1].ready
    /\ scanned.records[1].restarts = 6
    /\ scanned.records[2].status = "Running" /\ ~scanned.records[2].ready
    /\ scanned.records[2].restarts = 6
    /\ Len(FoundFor("web-1")) = 2 /\ Found("web-1", "readiness") = <<>>
    /\ Len(FoundFor("web-2")) = 2 /\ Found("web-2", "status") = <<>>

\* C37: a live read that fails leaves the cache as it was: no entry is made,
\* and an expired entry of the key keeps its payload and its time; the key
\* has no entry a next call could be served from, so that call reads live.
C37_FailedReadLeavesCache ==
    [][(lastCall.failure = None /\ lastCall'.failure # None)
          => /\ cache' = cache
             /\ ~Truthy(_get_from_cache(lastCall.client, lastCall.key))']_vars

\* a read failed on a key whose entry, with a pod in it, had expired, and
\* the entry is still there, as old as it was
C37_Witness ==
    /\ lastCall.failure # None
    /\ lastCall.key \in DOMAIN cache[lastCall.client]
    /\ cache[lastCall.client][lastCall.key].data # <<>>
    /\ now - cache[lastCall.client][lastCall.key].timestamp >= 30

\* a rule of the first scan_all of the process, whose cache was empty when
\* the scan began, misses the cache and goes to the API
FirstScanReadsLive ==
    /\ op.name = "scan_all" /\ ncalls = 1
    /\ pc = "call" /\ pc' = "live"

\* C38, as stated: in a scan_all that starts with an empty cache and whose
\* live reads all give a non-empty list, every (kind, scope) is read live
\* exactly once: no rule goes to the API for a key that an earlier rule of
\* the scan has stored.
C38_EachKindReadLiveOnce ==
    [][FirstScanReadsLive => live'.key \notin DOMAIN cache[op.client]]_vars

\* C38, amended: a rule goes to the API for a key that an earlier rule of
\* the scan has stored only when the entry is CacheTTL seconds old or older
\* by then; while the entries are younger, every later reader is served
\* from the entry stored by the first and each (kind, scope) is read live
\* exactly once.
C38_ReadLiveAgainOnlyWhenExpired ==
    [][FirstScanReadsLive =>
          \/ live'.key \notin DOMAIN cache[op.client]
          \/ now - cache[op.client][live'.key].timestamp >= 30]_vars

\* the scan is over, every rule returned, the last reader of the events was
\* served from the cache and the three entries are those of the first reads
C38_Witness ==
    /\ ret.name = "scan_all" /\ ncalls = 1
    /\ lastCall.origin = "scan_all" /\ lastCall.kind = "events"
    /\ lastCall.served = "cache" /\ lastCall.size > 0
    /\ \A k \in DOMAIN cache["cli"] : now - cache["cli"][k].timestamp < 30
    /\ Cardinality(DOMAIN cache["cli"]) = 3

\* a step of the scan loop that ends a cycle or the loop
LoopStepsAsStated ==
    /\ (loop.continuous /\ loop.at \in {"cycle", "scan_all"}
          /\ loop'.at \notin {"cycle", "scan_all"})
          => \/ loop'.at \in Sleeps /\ loop'.slept = loop.interval
             \/ loop'.at = "ended" /\ loop'.ended \in Interrupts
    /\ (loop.continuous /\ loop'.at = "ended") => loop'.ended \in Interrupts
    /\ (~loop.continuous /\ loop.at # "off")
          => /\ loop'.at \notin Sleeps
             /\ (loop'.at = "cycle" => loop.at = "cycle" /\ loop.last = None)
             /\ (loop.at \in {"cycle", "scan_all"}
                   /\ loop'.at \notin {"cycle", "scan_all"})
                   => loop'.at = "ended"

\* C36: in continuous mode every cycle of the scan command, completed or
\* raised, is followed by a sleep of the fixed interval and then by another
\* cycle, and the loop ends only by the operator's interrupt; in
\* non-continuous mode one cycle runs and, once its scan_all has returned,
\* the loop ends, also when the cycle raised.
C36_ScanLoop ==
    /\ [][LoopStepsAsStated]_vars
    /\ (loop.continuous /\ loop.at \in Sleeps)
          ~> (loop.at = "cycle" \/ loop.ended \in Interrupts)
    /\ (~loop.continuous /\ loop.at = "scan_all" /\ pc = "idle")
          ~> (loop.at = "ended")

\* in continuous mode a cycle is running after a cycle that raised and a
\* sleep of the interval
C36_Witness ==
    /\ loop.continuous
    /\ loop.at = "scan_all" /\ pc = "live"
    /\ loop.last = "raised"
    /\ loop.slept = loop.interval /\ loop.interval = 10

====
